---- MODULE Spec2Model ----
(***************************************************************************)
(* A model of the Zinc virtual machine (zinc-vm) and of the helpers it     *)
(* rests on: the Euclidean division of zinc-utils, the contract State of   *)
(* zinc-vm/src/core/contract/mod.rs with its evaluation, data, frame and   *)
(* condition stacks, the instructions Div, Mul and Require, and the        *)
(* contract storage gadget.                                                *)
(***************************************************************************)
EXTENDS Integers, Sequences, FiniteSets, TLC

VARIABLES
    args,                 \* the arguments of the pure function under check
    ret,                  \* its result
    evaluation_stack,     \* ExecutionState.evaluation_stack: a stack of forked stacks
    data_stack,           \* ExecutionState.data_stack: [memory, branches]
    frames_stack,         \* ExecutionState.frames_stack
    conditions_stack,     \* ExecutionState.conditions_stack
    instruction_counter,  \* ExecutionState.instruction_counter
    outputs,              \* State.outputs
    storage,              \* State.storage: the StorageGadget [leaves, root_hash]
    error,                \* the Err a handler returned, "none" while there is none
    instructions,         \* contract.instructions, the program State::run executes
    transactions,         \* State.transactions
    method_name,          \* State.method_name
    phase,                \* where State::run stands: "new", "running", "finished"
    check_cs,             \* the check_cs callback of State::run: the results of its
                          \* next calls (TRUE for Ok), every later call being Ok
    handler,              \* the locals of the call handler of the contract
    database,             \* the contract fields stored in the database
    define_stack,         \* the calls of Scope::define and Item::define that are open
    item_states,          \* the lazily defined items of a scope: the state of each one
    analyzers,            \* the compilations of the process: where each one stands
    type_index,           \* the process-wide type indexes TYPE_INDEX and TYPE_INDEX_SOFT
    exit_code,            \* Facade::test: the local exit_code
    unit_tests,           \* Facade::test: the unit tests the loop has not reached yet
    overflow_checks,      \* whether the build checks integer overflow: a debug build
                          \* panics on it, a release build wraps around
    scopes,               \* the scopes of the semantic analyzer: Scope.parent and
                          \* Scope.items of every scope created so far
    history               \* what the last operation read and returned (observation only)

vars == <<args, ret, evaluation_stack, data_stack, frames_stack, conditions_stack,
          instruction_counter, outputs, storage, error, instructions, transactions,
          method_name, phase, check_cs, handler, database, define_stack, item_states, analyzers,
          type_index, exit_code, unit_tests, overflow_checks, scopes, history>>


-----------------------------------------------------------------------------
(* Bounds of the model.                                                    *)

\* operands of div_rem are drawn from -MaxOperand .. MaxOperand
MaxOperand == 10
\* the programs run: the integers they push (1 .. MaxValue), the addresses they
\* store to (0 .. MaxAddress) and the iterations of their loops (1 .. MaxIterations)
MaxValue == 2
MaxAddress == 1
MaxIterations == 3
\* the scalars of a storage leaf
MaxLeafLength == 2
\* the values a program pushes before a call, passes to it, pushes in the callee,
\* returns and exits with (0 .. MaxArguments each), and the input transactions
MaxArguments == 2
MaxTransactions == 3
\* the calls of check_cs up to the one that returns an error
MaxChecks == 4
\* the encoded programs: their length, and the base-256 digits of the addresses
\* of their instructions (0 .. MaxDigit)
MaxProgram == 2
MaxDigit == 2
\* the scopes created and the items declared before the operation observed
MaxDeclarations == 3

-----------------------------------------------------------------------------
(* zinc-utils/src/euclidean/mod.rs                                         *)

Abs(x) == IF x < 0 THEN -x ELSE x

\* BigInt's Div: the quotient truncated towards zero
TruncDiv(a, b) ==
    IF (a < 0) = (b < 0) THEN Abs(a) \div Abs(b) ELSE -(Abs(a) \div Abs(b))

None == [tag |-> "None", div |-> 0, rem |-> 0]
Some(d, r) == [tag |-> "Some", div |-> d, rem |-> r]
Pending == [tag |-> "Pending", div |-> 0, rem |-> 0]

\* a div_rem that keeps the truncated quotient (the adjustment step left out)
div_rem_truncated(nominator, denominator) ==
    IF denominator = 0 THEN None
    ELSE LET div == TruncDiv(nominator, denominator)
         IN  Some(div, nominator - div * denominator)

div_rem(nominator, denominator) ==
    IF denominator = 0 THEN None
    ELSE LET div0 == TruncDiv(nominator, denominator)
             div  == IF div0 * denominator > nominator
                     THEN IF denominator > 0 THEN div0 - 1 ELSE div0 + 1
                     ELSE div0
             rem  == nominator - div * denominator
         IN  Some(div, rem)

-----------------------------------------------------------------------------
(* Scalars and cells (gadgets::scalar::Scalar, execution_state::cell::Cell) *)

\* the bit length of the integer types I8 and U8
BITLENGTH_BYTE == 8
\* std::usize::MAX, the return address of the root frame and the counter exit
\* leaves behind; narrowed to the largest integer the model checker holds
USIZE_MAX == 2147483647

Pow2(n) == 2 ^ n

Scalar(v, t) == [value |-> v, type |-> t]
\* an unset slot of the data stack (Option::None)
NoCell == [value |-> 0, type |-> "None"]
new_constant_bool(b) == Scalar(IF b THEN 1 ELSE 0, "Boolean")

IsInteger(t) == t \in {"I8", "U8"}
TypeMin(t) == IF t = "I8" THEN -Pow2(BITLENGTH_BYTE - 1) ELSE 0
TypeMax(t) ==
    CASE t = "I8" -> Pow2(BITLENGTH_BYTE - 1) - 1
      [] t = "U8" -> Pow2(BITLENGTH_BYTE) - 1
      [] OTHER    -> 1
InRange(v, t) == t = "Field" \/ (TypeMin(t) <= v /\ v <= TypeMax(t))

Last(seq) == seq[Len(seq)]
Front(seq) == SubSeq(seq, 1, Len(seq) - 1)

\* gadgets::select::conditional: c * a + (1 - c) * b
Select(c, a, b) == Scalar(c.value * a.value + (1 - c.value) * b.value, a.type)

\* gadgets::logical
And(a, b) == new_constant_bool(a.value = 1 /\ b.value = 1)
Or(a, b) == new_constant_bool(a.value = 1 \/ b.value = 1)
Not(a) == new_constant_bool(a.value # 1)

-----------------------------------------------------------------------------
(* The evaluation stack: a stack of stacks, one level per fork             *)

es_new == << <<>> >>
es_push(es, cell) == [es EXCEPT ![Len(es)] = Append(@, cell)]
es_can_pop(es) == Len(es) > 0 /\ Len(Last(es)) > 0
es_top(es) == Last(Last(es))
es_pop(es) == [es EXCEPT ![Len(es)] = Front(@)]
es_fork(es) == Append(es, <<>>)
es_can_revert(es) == Len(es) > 0
es_revert(es) == Front(es)
es_can_merge(es) == Len(es) >= 3 /\ Len(es[Len(es)]) = Len(es[Len(es) - 1])
\* the then level and the else level are popped and their cells pushed, selected
\* pairwise, on the level below
es_merge(es, condition) ==
    LET else_case == es[Len(es)]
        then_case == es[Len(es) - 1]
        base      == SubSeq(es, 1, Len(es) - 2)
        merged    == [i \in 1..Len(then_case) |->
                         Select(condition, then_case[i], else_case[i])]
    IN  [base EXCEPT ![Len(base)] = @ \o merged]

-----------------------------------------------------------------------------
(* The data stack: the memory and, per open branch, the writes staged in   *)
(* its arms (address -> [old, new])                                        *)

NoDelta == [a \in {} |-> [old |-> NoCell, new |-> NoCell]]
ds_new == [memory |-> <<>>, branches |-> <<>>]

Resize(memory, n) ==
    IF Len(memory) >= n THEN memory
    ELSE [i \in 1..n |-> IF i <= Len(memory) THEN memory[i] ELSE NoCell]

DeltaPut(delta, address, old, new) ==
    IF address \in DOMAIN delta
    THEN [delta EXCEPT ![address].new = new]
    ELSE [a \in DOMAIN delta \cup {address} |->
             IF a = address THEN [old |-> old, new |-> new] ELSE delta[a]]

ActiveDelta(branch) == IF branch.is_else THEN branch.else_delta ELSE branch.then_delta

ds_initialized(ds, address) ==
    address + 1 <= Len(ds.memory) /\ ds.memory[address + 1] # NoCell
ds_get(ds, address) == ds.memory[address + 1]

ds_set(ds, address, value) ==
    LET mem == Resize(ds.memory, address + 1)
        n   == Len(ds.branches)
        br  == IF n = 0 THEN ds.branches
               ELSE [ds.branches EXCEPT ![n] =
                        IF @.is_else
                        THEN [@ EXCEPT !.else_delta =
                                 DeltaPut(@, address, mem[address + 1], value)]
                        ELSE [@ EXCEPT !.then_delta =
                                 DeltaPut(@, address, mem[address + 1], value)]]
    IN  [memory |-> [mem EXCEPT ![address + 1] = value], branches |-> br]

ds_drop_from(ds, address) ==
    [ds EXCEPT !.memory = SubSeq(@, 1, IF address < Len(@) THEN address ELSE Len(@))]

ds_fork(ds) ==
    [ds EXCEPT !.branches =
        Append(@, [then_delta |-> NoDelta, else_delta |-> NoDelta, is_else |-> FALSE])]

Revert(memory, delta) ==
    [i \in 1..Len(memory) |->
        IF (i - 1) \in DOMAIN delta THEN delta[i - 1].old ELSE memory[i]]

ds_switch_branch(ds) ==
    LET n == Len(ds.branches)
        b == ds.branches[n]
    IN  [memory   |-> Revert(ds.memory, ActiveDelta(b)),
         branches |-> [ds.branches EXCEPT ![n].is_else = TRUE]]

\* the value address takes at the end of a branch: the select of what the two
\* arms left there, an arm that did not write it leaving the value from before
MergedCell(condition, b, address, before) ==
    LET in_then == address \in DOMAIN b.then_delta
        in_else == address \in DOMAIN b.else_delta
        then_v  == IF in_then THEN b.then_delta[address].new ELSE before
        else_v  == IF in_else THEN b.else_delta[address].new ELSE before
    IN  IF then_v = NoCell \/ else_v = NoCell THEN before
        ELSE Select(condition, then_v, else_v)

RECURSIVE SetAll(_, _, _, _, _)
SetAll(ds, addresses, condition, b, before) ==
    IF addresses = {} THEN ds
    ELSE LET a  == CHOOSE x \in addresses : \A y \in addresses : x <= y
             c  == MergedCell(condition, b, a, before[a + 1])
             d1 == IF c = NoCell THEN ds ELSE ds_set(ds, a, c)
         IN  SetAll(d1, addresses \ {a}, condition, b, before)

ds_merge(ds, condition) ==
    LET n      == Len(ds.branches)
        b      == ds.branches[n]
        before == Revert(ds.memory, ActiveDelta(b))
        popped == [memory |-> before, branches |-> Front(ds.branches)]
    IN  SetAll(popped, DOMAIN b.then_delta \cup DOMAIN b.else_delta, condition, b,
               before)

-----------------------------------------------------------------------------
(* zinc-vm/src/core/contract/mod.rs: State and its IVirtualMachine methods. *)
(* A method is a function from the state record to the state record; the   *)
(* Err it returns is the field error.                                      *)

\* the data-stack slots call reserves before the arguments
TRANSACTION_SIZE == 8
\* the outputs a constructor adds by itself (the contract address)
IMPLICIT_FIELDS_SIZE == 1
CONSTRUCTOR_NAME == "new"

Frame(start, return_address) ==
    [stack_frame_start |-> start, stack_frame_end |-> start,
     return_address |-> return_address, blocks |-> <<>>]
Loop(first, left) ==
    [kind |-> "Loop", first_instruction_index |-> first, iterations_left |-> left,
     condition |-> NoCell, is_else |-> FALSE]
Branch(condition, is_else) ==
    [kind |-> "Branch", first_instruction_index |-> 0, iterations_left |-> 0,
     condition |-> condition, is_else |-> is_else]

Fail(s, e) == [s EXCEPT !.error = e]
Ok(s) == s.error = "none"

TopFrame(s) == Last(s.frames_stack)
WithTopFrame(s, frame) == [s EXCEPT !.frames_stack[Len(s.frames_stack)] = frame]

condition_push(s, element) == [s EXCEPT !.conditions_stack = Append(@, element)]
condition_pop(s) ==
    IF Len(s.conditions_stack) = 0 THEN Fail(s, "StackUnderflow")
    ELSE [s EXCEPT !.conditions_stack = Front(@)]
HasCondition(s) == Len(s.conditions_stack) > 0
condition_top(s) == Last(s.conditions_stack)

push(s, cell) == [s EXCEPT !.evaluation_stack = es_push(@, cell)]
CanPop(s) == es_can_pop(s.evaluation_stack)
Top(s) == es_top(s.evaluation_stack)
pop(s) ==
    IF CanPop(s) THEN [s EXCEPT !.evaluation_stack = es_pop(@)]
    ELSE Fail(s, "StackUnderflow")

\* load: the cell it returns, and the state (the error) it leaves
CanLoad(s, address) ==
    /\ Len(s.frames_stack) > 0
    /\ ds_initialized(s.data_stack, TopFrame(s).stack_frame_start + address)
load(s, address) == ds_get(s.data_stack, TopFrame(s).stack_frame_start + address)
load_state(s, address) ==
    IF Len(s.frames_stack) = 0 THEN Fail(s, "StackUnderflow")
    ELSE IF ~CanLoad(s, address) THEN Fail(s, "UninitializedStorageAccess")
    ELSE s

Max(a, b) == IF a > b THEN a ELSE b

store(s, address, cell) ==
    IF Len(s.frames_stack) = 0 THEN Fail(s, "StackUnderflow")
    ELSE LET frame == TopFrame(s)
             end   == Max(frame.stack_frame_end, frame.stack_frame_start + address + 1)
             s1    == WithTopFrame(s, [frame EXCEPT !.stack_frame_end = end])
         IN  [s1 EXCEPT !.data_stack = ds_set(@, frame.stack_frame_start + address, cell)]

\* iterations - 1 on usize: for iterations = 0 a build that checks overflow
\* panics, and a build that does not wraps around to usize::MAX
loop_begin(s, iterations) ==
    IF Len(s.frames_stack) = 0 THEN Fail(s, "InternalError")
    ELSE IF iterations = 0 /\ overflow_checks THEN Fail(s, "Panic")
    ELSE LET frame == TopFrame(s)
             left  == IF iterations = 0 THEN USIZE_MAX ELSE iterations - 1
         IN  WithTopFrame(s, [frame EXCEPT !.blocks =
                                 Append(@, Loop(s.instruction_counter, left))])

\* a loop_end that stops one iteration early (iterations_left compared with 1)
loop_end_off_by_one(s) ==
    IF Len(s.frames_stack) = 0 THEN Fail(s, "Panic")
    ELSE LET frame == TopFrame(s)
         IN  IF Len(frame.blocks) = 0 THEN Fail(s, "UnexpectedLoopEnd")
             ELSE LET block  == Last(frame.blocks)
                      s1     == WithTopFrame(s, [frame EXCEPT !.blocks = Front(@)])
                  IN  IF block.kind # "Loop" THEN Fail(s1, "UnexpectedLoopEnd")
                      ELSE IF block.iterations_left > 1
                      THEN [WithTopFrame(s, [frame EXCEPT !.blocks =
                               Append(Front(@), [block EXCEPT !.iterations_left = @ - 1])])
                            EXCEPT !.instruction_counter = block.first_instruction_index]
                      ELSE s1

loop_end(s) ==
    IF Len(s.frames_stack) = 0 THEN Fail(s, "Panic")
    ELSE LET frame == TopFrame(s)
         IN  IF Len(frame.blocks) = 0 THEN Fail(s, "UnexpectedLoopEnd")
             ELSE LET block  == Last(frame.blocks)
                      s1     == WithTopFrame(s, [frame EXCEPT !.blocks = Front(@)])
                  IN  IF block.kind # "Loop" THEN Fail(s1, "UnexpectedLoopEnd")
                      ELSE IF block.iterations_left # 0
                      THEN [WithTopFrame(s, [frame EXCEPT !.blocks =
                               Append(Front(@), [block EXCEPT !.iterations_left = @ - 1])])
                            EXCEPT !.instruction_counter = block.first_instruction_index]
                      ELSE s1

\* the four fields of transaction i, in the order call stores them
TransactionFields(tx) ==
    << Scalar(tx.sender, "EthAddress"), Scalar(tx.recipient, "EthAddress"),
       Scalar(tx.token_address, "EthAddress"), Scalar(tx.amount, "Balance") >>

\* call, lines 337-413: the fields of the transactions go to the slots
\* 0 .. 4 * len - 1 of the new frame
RECURSIVE StoreTransactions(_, _)
StoreTransactions(s, k) ==
    IF k >= 4 * Len(s.transactions) \/ ~Ok(s) THEN s
    ELSE StoreTransactions(
             store(s, k, TransactionFields(s.transactions[(k \div 4) + 1])[(k % 4) + 1]),
             k + 1)

\* call, lines 417-424: argument i is popped and stored at
\* TRANSACTION_SIZE + inputs_count - i - 1
RECURSIVE StoreArgumentsInPopOrder(_, _, _)
\* arguments stored in the order they are popped: the top of the stack lowest
StoreArgumentsInPopOrder(s, inputs_count, i) ==
    IF i >= inputs_count \/ ~Ok(s) THEN s
    ELSE IF ~CanPop(s) THEN Fail(s, "StackUnderflow")
    ELSE StoreArgumentsInPopOrder(
             store(pop(s), TRANSACTION_SIZE + i, Top(s)),
             inputs_count, i + 1)

RECURSIVE StoreArguments(_, _, _)
StoreArguments(s, inputs_count, i) ==
    IF i >= inputs_count \/ ~Ok(s) THEN s
    ELSE IF ~CanPop(s) THEN Fail(s, "StackUnderflow")
    ELSE StoreArguments(
             store(pop(s), TRANSACTION_SIZE + inputs_count - i - 1, Top(s)),
             inputs_count, i + 1)

\* a call whose frame starts where the frame of the caller starts
call_in_frame_of_caller(s, address, inputs_count) ==
    IF Len(s.frames_stack) = 0 THEN Fail(s, "StackUnderflow")
    ELSE LET offset == TopFrame(s).stack_frame_start
             s1 == [s EXCEPT !.frames_stack =
                       Append(@, Frame(offset, s.instruction_counter))]
             s2 == StoreTransactions(s1, 0)
             s3 == StoreArguments(s2, inputs_count, 0)
         IN  IF Ok(s3) THEN [s3 EXCEPT !.instruction_counter = address] ELSE s3

call(s, address, inputs_count) ==
    IF Len(s.frames_stack) = 0 THEN Fail(s, "StackUnderflow")
    ELSE LET offset == TopFrame(s).stack_frame_end
             s1 == [s EXCEPT !.frames_stack =
                       Append(@, Frame(offset, s.instruction_counter))]
             s2 == StoreTransactions(s1, 0)
             s3 == StoreArguments(s2, inputs_count, 0)
         IN  IF Ok(s3) THEN [s3 EXCEPT !.instruction_counter = address] ELSE s3

\* the top n cells of the current level of the evaluation stack, the top first
RECURSIVE PopN(_, _)
PopN(s, n) ==
    IF n = 0 \/ ~Ok(s) THEN s
    ELSE IF ~CanPop(s) THEN Fail(s, "StackUnderflow")
    ELSE PopN(pop(s), n - 1)
TopN(s, n) ==
    LET level == Last(s.evaluation_stack)
    IN  [i \in 1..n |-> level[Len(level) - i + 1]]
Reverse(seq) == [i \in 1..Len(seq) |-> seq[Len(seq) - i + 1]]
RECURSIVE PushAll(_, _)
PushAll(s, cells) ==
    IF Len(cells) = 0 THEN s ELSE PushAll(push(s, Head(cells)), Tail(cells))

\* a return that pushes the outputs back in the order it popped them
return_reversed(s, outputs_count) ==
    LET s1 == PopN(s, outputs_count)
    IN  IF ~Ok(s1) THEN s1
        ELSE IF Len(s1.frames_stack) = 0 THEN Fail(s1, "StackUnderflow")
        ELSE LET outs  == TopN(s, outputs_count)
                 frame == TopFrame(s1)
                 s2 == [s1 EXCEPT !.frames_stack = Front(@),
                                  !.instruction_counter = frame.return_address,
                                  !.data_stack = ds_drop_from(@, frame.stack_frame_start)]
             IN  PushAll(s2, outs)

return(s, outputs_count) ==
    LET s1 == PopN(s, outputs_count)
    IN  IF ~Ok(s1) THEN s1
        ELSE IF Len(s1.frames_stack) = 0 THEN Fail(s1, "StackUnderflow")
        ELSE LET outs  == TopN(s, outputs_count)
                 frame == TopFrame(s1)
                 s2 == [s1 EXCEPT !.frames_stack = Front(@),
                                  !.instruction_counter = frame.return_address,
                                  !.data_stack = ds_drop_from(@, frame.stack_frame_start)]
             IN  PushAll(s2, Reverse(outs))

\* a branch_end that merges with the condition the wrong way round
branch_end_swapped(s) ==
    LET s1 == condition_pop(s)
    IN  IF ~Ok(s1) THEN s1
        ELSE IF Len(s1.frames_stack) = 0 THEN Fail(s1, "InternalError")
        ELSE LET frame == TopFrame(s1)
             IN  IF Len(frame.blocks) = 0 \/ Last(frame.blocks).kind # "Branch"
                 THEN Fail(s1, "UnexpectedEndIf")
                 ELSE LET branch == Last(frame.blocks)
                          s2 == WithTopFrame(s1, [frame EXCEPT !.blocks = Front(@)])
                          s3 == IF branch.is_else
                                THEN IF es_can_merge(s2.evaluation_stack)
                                     THEN [s2 EXCEPT !.evaluation_stack =
                                              es_merge(@, Not(branch.condition))]
                                     ELSE Fail(s2, "BranchStacksDoNotMatch")
                                ELSE IF es_can_revert(s2.evaluation_stack)
                                     THEN [s2 EXCEPT !.evaluation_stack = es_revert(@)]
                                     ELSE Fail(s2, "StackUnderflow")
                      IN  IF ~Ok(s3) THEN s3
                          ELSE IF Len(s3.data_stack.branches) = 0
                          THEN Fail(s3, "UnexpectedEndIf")
                          ELSE [s3 EXCEPT !.data_stack =
                                   ds_merge(@, Not(branch.condition))]

branch_then(s) ==
    IF ~CanPop(s) THEN Fail(s, "StackUnderflow")
    ELSE LET condition == Top(s)
             s1 == pop(s)
         IN  IF ~HasCondition(s1) THEN Fail(s1, "StackUnderflow")
             ELSE IF condition.type # "Boolean" THEN Fail(s1, "TypeError")
             ELSE LET next == And(condition, condition_top(s1))
                      s2 == [s1 EXCEPT !.conditions_stack = Append(@, next)]
                  IN  IF Len(s2.frames_stack) = 0 THEN Fail(s2, "StackUnderflow")
                      ELSE [WithTopFrame(s2, [TopFrame(s2) EXCEPT !.blocks =
                                Append(@, Branch(condition, FALSE))])
                            EXCEPT !.evaluation_stack = es_fork(@),
                                   !.data_stack = ds_fork(@)]

\* a branch_else that leaves the path predicate of the then arm in place
branch_else_keeps_predicate(s) ==
    IF Len(s.frames_stack) = 0 THEN Fail(s, "InternalError")
    ELSE LET frame == TopFrame(s)
         IN  IF Len(frame.blocks) = 0 \/ Last(frame.blocks).kind # "Branch"
                \/ Last(frame.blocks).is_else
             THEN Fail(s, "UnexpectedElse")
             ELSE LET branch == Last(frame.blocks)
                      s1 == WithTopFrame(s, [frame EXCEPT !.blocks =
                               Append(Front(@), [branch EXCEPT !.is_else = TRUE])])
                  IN  IF Len(s1.data_stack.branches) = 0 THEN Fail(s1, "UnexpectedElse")
                      ELSE [s1 EXCEPT
                              !.data_stack = ds_switch_branch(@),
                              !.evaluation_stack = es_fork(@)]

branch_else(s) ==
    IF Len(s.frames_stack) = 0 THEN Fail(s, "InternalError")
    ELSE LET frame == TopFrame(s)
         IN  IF Len(frame.blocks) = 0 \/ Last(frame.blocks).kind # "Branch"
                \/ Last(frame.blocks).is_else
             THEN Fail(s, "UnexpectedElse")
             ELSE LET branch == Last(frame.blocks)
                      s1 == WithTopFrame(s, [frame EXCEPT !.blocks =
                               Append(Front(@), [branch EXCEPT !.is_else = TRUE])])
                      s2 == condition_pop(s1)
                  IN  IF ~Ok(s2) THEN s2
                      ELSE IF ~HasCondition(s2) THEN Fail(s2, "StackUnderflow")
                      ELSE LET next == And(condition_top(s2), Not(branch.condition))
                               s3 == condition_push(s2, next)
                           IN  IF Len(s3.data_stack.branches) = 0
                               THEN Fail(s3, "UnexpectedElse")
                               ELSE [s3 EXCEPT
                                       !.data_stack = ds_switch_branch(@),
                                       !.evaluation_stack = es_fork(@)]

branch_end(s) ==
    LET s1 == condition_pop(s)
    IN  IF ~Ok(s1) THEN s1
        ELSE IF Len(s1.frames_stack) = 0 THEN Fail(s1, "InternalError")
        ELSE LET frame == TopFrame(s1)
             IN  IF Len(frame.blocks) = 0 \/ Last(frame.blocks).kind # "Branch"
                 THEN Fail(s1, "UnexpectedEndIf")
                 ELSE LET branch == Last(frame.blocks)
                          s2 == WithTopFrame(s1, [frame EXCEPT !.blocks = Front(@)])
                          s3 == IF branch.is_else
                                THEN IF es_can_merge(s2.evaluation_stack)
                                     THEN [s2 EXCEPT !.evaluation_stack =
                                              es_merge(@, branch.condition)]
                                     ELSE Fail(s2, "BranchStacksDoNotMatch")
                                ELSE IF es_can_revert(s2.evaluation_stack)
                                     THEN [s2 EXCEPT !.evaluation_stack = es_revert(@)]
                                     ELSE Fail(s2, "StackUnderflow")
                      IN  IF ~Ok(s3) THEN s3
                          ELSE IF Len(s3.data_stack.branches) = 0
                          THEN Fail(s3, "UnexpectedEndIf")
                          ELSE [s3 EXCEPT !.data_stack = ds_merge(@, branch.condition)]

\* an exit that leaves the outputs in the order they were popped
exit_unreversed(s, outputs_count) ==
    LET is_new == s.method_name = CONSTRUCTOR_NAME
        count  == IF is_new
                  THEN IF outputs_count >= IMPLICIT_FIELDS_SIZE
                       THEN outputs_count - IMPLICIT_FIELDS_SIZE
                       ELSE USIZE_MAX
                  ELSE outputs_count
    IN  IF count > Len(Last(s.evaluation_stack)) THEN Fail(s, "StackUnderflow")
        ELSE LET s1 == PopN(s, count)
                 popped == s.outputs \o TopN(s, count)
                 extended == IF is_new
                             THEN Append(popped, Scalar(0, "EthAddress"))
                             ELSE popped
             IN  [s1 EXCEPT !.outputs = extended,
                            !.instruction_counter = USIZE_MAX]

\* exit: outputs_count values are popped into outputs (a constructor pops
\* IMPLICIT_FIELDS_SIZE fewer and adds the zero address), outputs is reversed
\* and the instruction counter is set beyond every program
exit(s, outputs_count) ==
    LET is_new == s.method_name = CONSTRUCTOR_NAME
        count  == IF is_new
                  THEN IF outputs_count >= IMPLICIT_FIELDS_SIZE
                       THEN outputs_count - IMPLICIT_FIELDS_SIZE
                       ELSE USIZE_MAX
                  ELSE outputs_count
    IN  IF count > Len(Last(s.evaluation_stack)) THEN Fail(s, "StackUnderflow")
        ELSE LET s1 == PopN(s, count)
                 popped == s.outputs \o TopN(s, count)
                 extended == IF is_new
                             THEN Append(popped, Scalar(0, "EthAddress"))
                             ELSE popped
             IN  [s1 EXCEPT !.outputs = Reverse(extended),
                            !.instruction_counter = USIZE_MAX]

-----------------------------------------------------------------------------
(* Gadgets the instructions call                                           *)

\* Scalar::conditional_type_check: under a true condition a value outside the
\* range of the type is a ValueOverflow; the scalar is returned with the type
TypeCheckFails(condition, value, type) == condition.value = 1 /\ ~InRange(value, type)

\* gadgets::arithmetic::div_rem::div_rem_conditional: the Euclidean quotient and
\* remainder; under a false condition nothing is constrained and (0, 0) returned
div_rem_conditional_fails(condition, left, right) ==
    condition.value = 1 /\ right.value = 0
div_rem_conditional(condition, left, right) ==
    IF condition.value = 1
    THEN LET r == div_rem(left.value, right.value)
         IN  << Scalar(r.div, left.type), Scalar(r.rem, left.type) >>
    ELSE << Scalar(0, left.type), Scalar(0, left.type) >>

-----------------------------------------------------------------------------
(* zinc-vm/src/instructions: Div, Mul, Require                             *)
(* The scalar types of the model are Boolean, I8 and U8; the Field arm of  *)
(* Div and Mul is outside it.                                              *)

\* a Div that takes its operands in the order they are popped (left / right swapped)
DivExecuteSwapped(s) ==
    IF ~CanPop(s) THEN Fail(s, "StackUnderflow")
    ELSE LET left == Top(s)
             s1   == pop(s)
         IN  IF ~CanPop(s1) THEN Fail(s1, "StackUnderflow")
             ELSE LET right == Top(s1)
                      s2    == pop(s1)
                  IN  IF ~HasCondition(s2) THEN Fail(s2, "StackUnderflow")
                      ELSE IF left.type # right.type THEN Fail(s2, "TypeError")
                      ELSE IF ~IsInteger(left.type) THEN Fail(s2, "TypeError")
                      ELSE LET condition == condition_top(s2)
                           IN  IF div_rem_conditional_fails(condition, left, right)
                               THEN Fail(s2, "RequireError")
                               ELSE LET q == div_rem_conditional(condition, left, right)[1]
                                    IN  IF TypeCheckFails(condition, q.value, left.type)
                                        THEN Fail(s2, "ValueOverflow")
                                        ELSE push(s2, q)

DivExecute(s) ==
    IF ~CanPop(s) THEN Fail(s, "StackUnderflow")
    ELSE LET right == Top(s)
             s1    == pop(s)
         IN  IF ~CanPop(s1) THEN Fail(s1, "StackUnderflow")
             ELSE LET left == Top(s1)
                      s2   == pop(s1)
                  IN  IF ~HasCondition(s2) THEN Fail(s2, "StackUnderflow")
                      ELSE IF left.type # right.type THEN Fail(s2, "TypeError")
                      ELSE IF ~IsInteger(left.type) THEN Fail(s2, "TypeError")
                      ELSE LET condition == condition_top(s2)
                           IN  IF div_rem_conditional_fails(condition, left, right)
                               THEN Fail(s2, "RequireError")
                               ELSE LET q == div_rem_conditional(condition, left, right)[1]
                                    IN  IF TypeCheckFails(condition, q.value, left.type)
                                        THEN Fail(s2, "ValueOverflow")
                                        ELSE push(s2, q)

\* a Mul that range-checks whatever the path predicate is
MulExecuteUnconditional(s) ==
    IF ~CanPop(s) THEN Fail(s, "StackUnderflow")
    ELSE LET right == Top(s)
             s1    == pop(s)
         IN  IF ~CanPop(s1) THEN Fail(s1, "StackUnderflow")
             ELSE LET left == Top(s1)
                      s2   == pop(s1)
                  IN  IF left.type # right.type THEN Fail(s2, "TypeError")
                      ELSE IF ~HasCondition(s2) THEN Fail(s2, "StackUnderflow")
                      ELSE LET unchecked_mul == left.value * right.value
                           IN  IF ~InRange(unchecked_mul, left.type)
                               THEN Fail(s2, "ValueOverflow")
                               ELSE push(s2, Scalar(unchecked_mul, left.type))

MulExecute(s) ==
    IF ~CanPop(s) THEN Fail(s, "StackUnderflow")
    ELSE LET right == Top(s)
             s1    == pop(s)
         IN  IF ~CanPop(s1) THEN Fail(s1, "StackUnderflow")
             ELSE LET left == Top(s1)
                      s2   == pop(s1)
                  IN  IF left.type # right.type THEN Fail(s2, "TypeError")
                      ELSE IF ~HasCondition(s2) THEN Fail(s2, "StackUnderflow")
                      ELSE LET condition     == condition_top(s2)
                               unchecked_mul == left.value * right.value
                           IN  IF TypeCheckFails(condition, unchecked_mul, left.type)
                               THEN Fail(s2, "ValueOverflow")
                               ELSE push(s2, Scalar(unchecked_mul, left.type))

\* a Require that does not look at the path predicate
RequireExecuteUnmasked(s) ==
    IF ~CanPop(s) THEN Fail(s, "StackUnderflow")
    ELSE LET value == Top(s)
             s1    == pop(s)
         IN  IF ~HasCondition(s1) THEN Fail(s1, "StackUnderflow")
             ELSE IF value.type # "Boolean" THEN Fail(s1, "TypeError")
             ELSE IF value.value # 1 THEN Fail(s1, "RequireError")
             ELSE s1

RequireExecute(s) ==
    IF ~CanPop(s) THEN Fail(s, "StackUnderflow")
    ELSE LET value == Top(s)
             s1    == pop(s)
         IN  IF ~HasCondition(s1) THEN Fail(s1, "StackUnderflow")
             ELSE IF value.type # "Boolean" THEN Fail(s1, "TypeError")
             ELSE LET not_c     == Not(condition_top(s1))
                      condition == Or(value, not_c)
                  IN  IF condition.value # 1 THEN Fail(s1, "RequireError")
                      ELSE s1

-----------------------------------------------------------------------------
(* The backing storage of the contract (IMerkleTree): a vector of leaves,  *)
(* each an Array of scalars or a Map, and the Merkle root over them        *)

ArrayLeaf(values) == [kind |-> "Array", values |-> values]
MapLeaf == [kind |-> "Map", values |-> <<>>]

\* the hash of two field elements, in a small field
Hash2(a, b) == (31 * a + 17 * b + 7) % 1009

RECURSIVE HashValues(_)
HashValues(values) ==
    IF Len(values) = 0 THEN 1
    ELSE Hash2(values[Len(values)].value + 2, HashValues(Front(values)))

LeafHash(leaf) == IF leaf.kind = "Map" THEN 0 ELSE HashValues(leaf.values)

RECURSIVE MerkleLevel(_)
\* one level up: the hashes of the pairs, a last odd node paired with zero
MerkleLevel(hashes) ==
    IF Len(hashes) = 0 THEN <<>>
    ELSE IF Len(hashes) = 1 THEN << Hash2(hashes[1], 0) >>
    ELSE << Hash2(hashes[1], hashes[2]) >> \o MerkleLevel(SubSeq(hashes, 3, Len(hashes)))

RECURSIVE MerkleFold(_)
MerkleFold(hashes) ==
    IF Len(hashes) = 0 THEN 0
    ELSE IF Len(hashes) = 1 THEN hashes[1]
    ELSE MerkleFold(MerkleLevel(hashes))

tree_root_hash(leaves) == MerkleFold([i \in 1..Len(leaves) |-> LeafHash(leaves[i])])
tree_has(leaves, index) == index >= 0 /\ index < Len(leaves)
tree_load(leaves, index) == leaves[index + 1]
tree_store(leaves, index, values) == [leaves EXCEPT ![index + 1] = values]

-----------------------------------------------------------------------------
(* zinc-vm/src/gadgets/contract/storage.rs: StorageGadget                  *)

StorageGadget_new(leaves) ==
    [leaves |-> leaves, root_hash |-> Scalar(tree_root_hash(leaves), "Field")]

\* load: Err when the backing storage has no such leaf
load_fails(gadget, index) == ~tree_has(gadget.leaves, index.value)

\* a load that reads the leaf at index 0 whatever the index
StorageGadget_load_first(gadget, size, index) ==
    LET merkle_tree_leaf == tree_load(gadget.leaves, 0)
    IN  IF merkle_tree_leaf.kind = "Array" THEN merkle_tree_leaf.values ELSE <<>>

\* load: the values of an Array leaf, nothing for a Map; size is not looked at
StorageGadget_load(gadget, size, index) ==
    LET merkle_tree_leaf == tree_load(gadget.leaves, index.value)
    IN  IF merkle_tree_leaf.kind = "Array" THEN merkle_tree_leaf.values ELSE <<>>

\* a store that also clears the leaf after the one it writes
StorageGadget_store_spills(gadget, index, values) ==
    LET stored == tree_store(gadget.leaves, index.value, values)
    IN  [gadget EXCEPT !.leaves =
            IF tree_has(stored, index.value + 1)
            THEN tree_store(stored, index.value + 1, ArrayLeaf(<<>>))
            ELSE stored]

\* store: the leaf is replaced in the backing storage; root_hash is left as it was
StorageGadget_store(gadget, index, values) ==
    [gadget EXCEPT !.leaves = tree_store(@, index.value, values)]

StorageGadget_root_hash(gadget) == gadget.root_hash

\* State::storage_load and State::storage_store
storage_load_fails(s, index) == load_fails(s.storage, index)
storage_load(s, index, size) == StorageGadget_load(s.storage, size, index)
storage_store(s, index, values) ==
    IF load_fails(s.storage, index) THEN Fail(s, "InvalidStorageValue")
    ELSE [s EXCEPT !.storage = StorageGadget_store(@, index, values)]

\* State::get_outputs: the outputs and, last, the root hash of the storage gadget
get_outputs(s) ==
    [i \in 1..Len(s.outputs) + 1 |->
        IF i <= Len(s.outputs) THEN s.outputs[i].value
        ELSE StorageGadget_root_hash(s.storage).value]

-----------------------------------------------------------------------------
(* The state record the methods work on, and the instructions              *)

S == [evaluation_stack |-> evaluation_stack, data_stack |-> data_stack,
      frames_stack |-> frames_stack, conditions_stack |-> conditions_stack,
      instruction_counter |-> instruction_counter, outputs |-> outputs,
      storage |-> storage, error |-> error, transactions |-> transactions,
      method_name |-> method_name]

\* State::new: the state a run starts from
State_new(gadget, name, txs) ==
    [evaluation_stack |-> es_new, data_stack |-> ds_new, frames_stack |-> <<>>,
     conditions_stack |-> <<>>, instruction_counter |-> 0, outputs |-> <<>>,
     storage |-> gadget, error |-> "none", transactions |-> txs, method_name |-> name]

Commit(r) ==
    /\ evaluation_stack' = r.evaluation_stack
    /\ data_stack' = r.data_stack
    /\ frames_stack' = r.frames_stack
    /\ conditions_stack' = r.conditions_stack
    /\ instruction_counter' = r.instruction_counter
    /\ outputs' = r.outputs
    /\ storage' = r.storage
    /\ error' = r.error
    /\ UNCHANGED <<transactions, method_name>>

Instr(op, a, b, cell) == [op |-> op, a |-> a, b |-> b, cell |-> cell]
Push(cell) == Instr("Push", 0, 0, cell)
Store(address) == Instr("Store", address, 0, NoCell)
Load(address) == Instr("Load", address, 0, NoCell)
If == Instr("If", 0, 0, NoCell)
Else == Instr("Else", 0, 0, NoCell)
EndIf == Instr("EndIf", 0, 0, NoCell)
LoopBegin(iterations) == Instr("LoopBegin", iterations, 0, NoCell)
LoopEnd == Instr("LoopEnd", 0, 0, NoCell)
Call(address, inputs_count) == Instr("Call", address, inputs_count, NoCell)
Return(outputs_count) == Instr("Return", outputs_count, 0, NoCell)
Exit(outputs_count) == Instr("Exit", outputs_count, 0, NoCell)
Require == Instr("Require", 0, 0, NoCell)
Mul == Instr("Mul", 0, 0, NoCell)
Div == Instr("Div", 0, 0, NoCell)

\* Store pops a cell and stores it; Load pushes the cell it loads
StoreExecute(s, address) ==
    IF ~CanPop(s) THEN Fail(s, "StackUnderflow") ELSE store(pop(s), address, Top(s))
LoadExecute(s, address) ==
    LET s1 == load_state(s, address)
    IN  IF Ok(s1) THEN push(s1, load(s, address)) ELSE s1

\* instruction.execute(self)
Execute(i, s) ==
    CASE i.op = "Push"      -> push(s, i.cell)
      [] i.op = "Store"     -> StoreExecute(s, i.a)
      [] i.op = "Load"      -> LoadExecute(s, i.a)
      [] i.op = "If"        -> branch_then(s)
      [] i.op = "Else"      -> branch_else(s)
      [] i.op = "EndIf"     -> branch_end(s)
      [] i.op = "LoopBegin" -> loop_begin(s, i.a)
      [] i.op = "LoopEnd"   -> loop_end(s)
      [] i.op = "Call"      -> call(s, i.a, i.b)
      [] i.op = "Return"    -> return(s, i.a)
      [] i.op = "Exit"      -> exit(s, i.a)
      [] i.op = "Require"   -> RequireExecute(s)
      [] i.op = "Mul"       -> MulExecute(s)
      [] i.op = "Div"       -> DivExecute(s)

\* State::run, lines 103-125: the initial path predicate, the root frames, the
\* inputs on the evaluation stack and the call of the method
run_prologue(s, input_values, address) ==
    LET one == Scalar(1, "Boolean")
        s1 == condition_push(s, one)
        s2 == [s1 EXCEPT !.frames_stack =
                  Append(Append(@, Frame(0, USIZE_MAX)), Frame(0, USIZE_MAX))]
        s3 == PushAll(s2, input_values)
    IN  call(s3, address, Len(input_values))

\* State::run, lines 129-156: one turn of the loop on instruction
run_step(s, instruction) ==
    Execute(instruction, [s EXCEPT !.instruction_counter = @ + 1])

-----------------------------------------------------------------------------
(* Specifications                                                          *)

VMIs(r) ==
    /\ evaluation_stack = r.evaluation_stack
    /\ data_stack = r.data_stack
    /\ frames_stack = r.frames_stack
    /\ conditions_stack = r.conditions_stack
    /\ instruction_counter = r.instruction_counter
    /\ outputs = r.outputs
    /\ storage = r.storage
    /\ error = r.error
    /\ transactions = r.transactions
    /\ method_name = r.method_name

NoStorage == StorageGadget_new(<<>>)
NoHistory == [op |-> "none"]

VMUnused ==
    /\ VMIs(State_new(NoStorage, "main", <<>>))
    /\ instructions = <<>>
    /\ history = NoHistory
    /\ check_cs = <<>>
    /\ handler = <<>>
    /\ database = 0
    /\ define_stack = <<>>
    /\ item_states = <<>>
    /\ analyzers = <<>>
    /\ type_index = <<>>
    /\ exit_code = "Passed"
    /\ unit_tests = <<>>
    /\ overflow_checks = FALSE
    /\ scopes = <<>>

(* div_rem applied to every pair of operands within the bound              *)

EuclidInit ==
    /\ args \in (-MaxOperand..MaxOperand) \X (-MaxOperand..MaxOperand)
    /\ ret = Pending
    /\ phase = "euclid"
    /\ VMUnused

EuclidDivRem ==
    /\ phase = "euclid"
    /\ ret = Pending
    /\ ret' = div_rem(args[1], args[2])
    /\ UNCHANGED <<args, evaluation_stack, data_stack, frames_stack, conditions_stack,
                   instruction_counter, outputs, storage, error, instructions,
                   transactions, method_name, phase, check_cs, handler, database, define_stack,
                   item_states, analyzers, type_index, exit_code, unit_tests, overflow_checks,
                   scopes, history>>

EuclidNext == EuclidDivRem

SpecEuclid == EuclidInit /\ [][EuclidNext]_vars

\* C1: div_rem(a, b) returns None for b = 0 and otherwise Some((q, m)) with
\* a = q * b + m and 0 <= m < |b|
C1_DivRemEuclidean ==
    (phase = "euclid" /\ ret # Pending) =>
        IF args[2] = 0 THEN ret = None
        ELSE /\ ret.tag = "Some"
             /\ args[1] = ret.div * args[2] + ret.rem
             /\ 0 <= ret.rem
             /\ ret.rem < Abs(args[2])

\* a negative nominator, where the truncated quotient has to be adjusted
C1_Witness ==
    /\ phase = "euclid"
    /\ args = <<-9, 4>>
    /\ ret = Some(-3, 3)

-----------------------------------------------------------------------------
(* Div, Mul and Require, each executed once on the state a short program   *)
(* prefix leaves: the operands on the evaluation stack, at the top level,  *)
(* in the then arm or in the else arm of a branch                          *)

RECURSIVE RunAll(_, _)
RunAll(s, program) ==
    IF Len(program) = 0 \/ ~Ok(s) THEN s
    ELSE RunAll(run_step(s, Head(program)), Tail(program))

Started == run_prologue(State_new(NoStorage, "main", <<>>), <<>>, 0)

Booleans == {Scalar(0, "Boolean"), Scalar(1, "Boolean")}
OperandsOf(type) ==
    {Scalar(v, type) : v \in {x \in (-MaxOperand..MaxOperand) \cup
                                    {TypeMin(type), TypeMin(type) + 1, TypeMax(type)} :
                                InRange(x, type)}}
Operands == OperandsOf("I8") \cup OperandsOf("U8") \cup Booleans

Prefixes ==
    {<<>>} \cup {<<Push(c), If>> : c \in Booleans}
           \cup {<<Push(c), If, Else>> : c \in Booleans}

OperandPushes ==
    {<<Push(a), Push(b)>> : a \in Operands, b \in Operands}
        \cup {<<Push(a)>> : a \in Booleans}

InstrInit ==
    /\ \E prefix \in Prefixes, pushes \in OperandPushes :
          VMIs(RunAll(Started, prefix \o pushes))
    /\ instructions = <<>>
    /\ history = NoHistory
    /\ check_cs = <<>>
    /\ handler = <<>>
    /\ database = 0
    /\ define_stack = <<>>
    /\ item_states = <<>>
    /\ analyzers = <<>>
    /\ type_index = <<>>
    /\ exit_code = "Passed"
    /\ unit_tests = <<>>
    /\ overflow_checks = FALSE
    /\ scopes = <<>>
    /\ phase = "instr"
    /\ args = <<>>
    /\ ret = Pending

\* what the instruction is about to read: the predicate, the level it pops from
Observed(op) ==
    [op |-> op,
     condition |-> condition_top(S).value,
     before |-> Last(evaluation_stack)]

InstrStep(instruction) ==
    /\ phase = "instr"
    /\ history = NoHistory
    /\ error = "none"
    /\ Commit(run_step(S, instruction))
    /\ history' = Observed(instruction.op)
    /\ UNCHANGED <<args, ret, instructions, phase, check_cs, handler, database, define_stack,
                   item_states, analyzers, type_index, exit_code, unit_tests, overflow_checks,
                   scopes>>

InstrDiv == InstrStep(Div)
InstrMul == InstrStep(Mul)
InstrRequire == InstrStep(Require)

InstrNext == InstrDiv \/ InstrMul \/ InstrRequire

SpecInstr == InstrInit /\ [][InstrNext]_vars

\* the operands an observed binary instruction popped
Right == history.before[Len(history.before)]
Left == history.before[Len(history.before) - 1]
\* the level of the evaluation stack with the n operands replaced by result
Replaced(n, result) ==
    Append(SubSeq(history.before, 1, Len(history.before) - n), result)
Dropped(n) == SubSeq(history.before, 1, Len(history.before) - n)

\* the q with l = q * r + m for some 0 <= m < |r|
EuclideanQuotient(l, r) ==
    CHOOSE q \in -(Abs(l) + 1)..(Abs(l) + 1) : \E m \in 0..(Abs(r) - 1) : l = q * r + m

DivOfSigned ==
    /\ phase = "instr"
    /\ history.op = "Div"
    /\ Len(history.before) >= 2
    /\ Left.type = "I8"
    /\ Right.type = "I8"
    /\ Right.value # 0
    /\ history.condition = 1

\* C2 as stated: Div on two signed integers with a non-zero divisor under a true
\* path predicate pushes the Euclidean quotient
C2_DivAlwaysPushesQuotient ==
    DivOfSigned =>
        /\ error = "none"
        /\ Last(evaluation_stack) =
              Replaced(2, Scalar(EuclideanQuotient(Left.value, Right.value), "I8"))

\* C2 amended: Div on two signed integers with a non-zero divisor under a true
\* path predicate pops both and pushes the Euclidean quotient when the quotient
\* is in the range of the type, and fails with ValueOverflow when it is not
C2_DivQuotientOrOverflow ==
    DivOfSigned =>
        LET q == EuclideanQuotient(Left.value, Right.value)
        IN  IF InRange(q, "I8")
            THEN /\ error = "none"
                 /\ Last(evaluation_stack) = Replaced(2, Scalar(q, "I8"))
            ELSE error = "ValueOverflow"

C2_Witness ==
    /\ DivOfSigned
    /\ Left.value = -9
    /\ Right.value = 4
    /\ error = "none"
    /\ es_top(evaluation_stack) = Scalar(-3, "I8")

RequireOfBoolean ==
    /\ phase = "instr"
    /\ history.op = "Require"
    /\ Len(history.before) >= 1
    /\ Right.type = "Boolean"

\* C4: Require fails with RequireError exactly when the popped value is false and
\* the path predicate is true; otherwise it succeeds, the value popped
C4_RequireMasked ==
    RequireOfBoolean =>
        /\ error = "RequireError" <=> (Right.value = 0 /\ history.condition = 1)
        /\ error # "RequireError" =>
              /\ error = "none"
              /\ Last(evaluation_stack) = Dropped(1)

\* a false value required in an arm whose path predicate is false
C4_Witness ==
    /\ RequireOfBoolean
    /\ Right.value = 0
    /\ history.condition = 0
    /\ error = "none"

MulOfIntegers ==
    /\ phase = "instr"
    /\ history.op = "Mul"
    /\ Len(history.before) >= 2
    /\ IsInteger(Left.type)
    /\ Left.type = Right.type

\* C5: Mul pushes the product when it is in the range of the type; a product out
\* of range is a ValueOverflow under a true path predicate and no error under a
\* false one
C5_MulRangeChecked ==
    MulOfIntegers =>
        LET product == Left.value * Right.value
        IN  IF InRange(product, Left.type)
            THEN /\ error = "none"
                 /\ Last(evaluation_stack) = Replaced(2, Scalar(product, Left.type))
            ELSE IF history.condition = 1
                 THEN error = "ValueOverflow"
                 ELSE error = "none"

\* an overflowing product in an arm whose path predicate is false
C5_Witness ==
    /\ MulOfIntegers
    /\ ~InRange(Left.value * Right.value, Left.type)
    /\ history.condition = 0
    /\ error = "none"

-----------------------------------------------------------------------------
(* State::run on a program: the prologue, one action per turn of the loop, *)
(* and get_outputs when the instruction counter has left the program       *)

CellAt(memory, address) ==
    IF address + 1 <= Len(memory) THEN memory[address + 1] ELSE NoCell

\* what a turn of the loop on instruction (at index at) adds to the history:
\* the count of executions, and for a branch the condition popped by If, the
\* memory and the conditions stack before it, the memory at the end of the then
\* arm (Else) and of the else arm (EndIf);
\* the state the instruction was executed in, the indexes of the Call
\* instructions whose callees have not returned, and the index of the Call this
\* instruction is or returns from, with the memory at each of these calls and
\* the memory at the call a Return returns from
Noted(instruction, at, r) ==
    LET h == [history EXCEPT !.op = instruction.op, !.at = at,
                             !.executed[at + 1] = @ + 1,
                             !.before = S,
                             !.site = IF instruction.op = "Call" THEN at
                                      ELSE IF instruction.op = "Return" /\ Len(history.calls) > 0
                                      THEN Last(history.calls)
                                      ELSE @,
                             !.saved = IF ~Ok(r) THEN @
                                       ELSE IF instruction.op = "Call"
                                       THEN Append(@, data_stack.memory)
                                       ELSE IF instruction.op = "Return" /\ Len(@) > 0
                                       THEN Front(@)
                                       ELSE @,
                             !.returned = IF instruction.op = "Return" /\ Len(history.saved) > 0
                                          THEN Last(history.saved)
                                          ELSE @,
                             !.calls = IF ~Ok(r) THEN @
                                       ELSE IF instruction.op = "Call" THEN Append(@, at)
                                       ELSE IF instruction.op = "Return" /\ Len(@) > 0
                                       THEN Front(@)
                                       ELSE @]
    IN  IF ~Ok(r) THEN h
        ELSE CASE instruction.op = "If" ->
                    [h EXCEPT !.open = Append(@, [condition |-> Top(S).value,
                                                  before |-> data_stack.memory,
                                                  conditions |-> conditions_stack,
                                                  then_end |-> <<>>,
                                                  has_else |-> FALSE])]
               [] instruction.op = "Else" /\ Len(h.open) > 0 ->
                    [h EXCEPT !.open[Len(h.open)].then_end = data_stack.memory,
                              !.open[Len(h.open)].has_else = TRUE]
               [] instruction.op = "EndIf" /\ Len(h.open) > 0 ->
                    LET o == Last(h.open)
                    IN  [h EXCEPT
                           !.open = Front(@),
                           !.merge = [condition |-> o.condition,
                                      conditions |-> o.conditions,
                                      then_end |-> IF o.has_else THEN o.then_end
                                                   ELSE data_stack.memory,
                                      else_end |-> IF o.has_else THEN data_stack.memory
                                                   ELSE o.before]]
               [] OTHER -> h

\* a run of `program` by a build that checks overflow or not
RunInitOn(program, gadget, name, txs, input_values, checks, checked) ==
    /\ instructions = program
    /\ VMIs(State_new(gadget, name, txs))
    /\ history = [op |-> "none", at |-> 0,
                  executed |-> [k \in 1..Len(instructions) |-> 0],
                  open |-> <<>>, merge |-> <<>>, before |-> S, calls |-> <<>>,
                  saved |-> <<>>, returned |-> <<>>,
                  site |-> 0]
    /\ phase = "new"
    /\ args = input_values
    /\ ret = Pending
    /\ check_cs = checks
    /\ handler = <<>>
    /\ database = 0
    /\ define_stack = <<>>
    /\ item_states = <<>>
    /\ analyzers = <<>>
    /\ type_index = <<>>
    /\ exit_code = "Passed"
    /\ unit_tests = <<>>
    /\ overflow_checks = checked
    /\ scopes = <<>>

RunInitWith(program, gadget, name, txs, input_values, checks) ==
    RunInitOn(program, gadget, name, txs, input_values, checks, FALSE)

RunInit(program) == RunInitWith(program, NoStorage, "main", <<>>, <<>>, <<>>)

\* execute(self).and(check_cs(cs)): the callback is called whatever execute
\* returned, and its error is returned when execute returned none
Checked(r) ==
    IF Ok(r) /\ Len(check_cs) > 0 /\ ~Head(check_cs)
    THEN Fail(r, "UnsatisfiedConstraint")
    ELSE r
CheckCalled == check_cs' = IF Len(check_cs) > 0 THEN Tail(check_cs) ELSE check_cs

RunStart ==
    /\ phase = "new"
    /\ LET r == Checked(run_prologue(S, args, 0))
       IN  /\ Commit(r)
           /\ phase' = IF Ok(r) THEN "running" ELSE "failed"
    /\ CheckCalled
    /\ UNCHANGED handler
    /\ UNCHANGED database
    /\ UNCHANGED define_stack
    /\ UNCHANGED item_states
    /\ UNCHANGED analyzers
    /\ UNCHANGED type_index
    /\ UNCHANGED exit_code
    /\ UNCHANGED unit_tests
    /\ UNCHANGED overflow_checks
    /\ UNCHANGED scopes
    /\ UNCHANGED <<args, ret, instructions, history>>

\* a loop that logs the error of an instruction and goes on
RunStepContinues ==
    /\ phase = "running"
    /\ instruction_counter < Len(instructions)
    /\ CheckCalled
    /\ UNCHANGED handler
    /\ UNCHANGED database
    /\ UNCHANGED define_stack
    /\ UNCHANGED item_states
    /\ UNCHANGED analyzers
    /\ UNCHANGED type_index
    /\ UNCHANGED exit_code
    /\ UNCHANGED unit_tests
    /\ UNCHANGED overflow_checks
    /\ UNCHANGED scopes
    /\ LET instruction == instructions[instruction_counter + 1]
           r == Checked(run_step(S, instruction))
       IN  /\ Commit(r)
           /\ phase' = "running"
           /\ history' = Noted(instruction, instruction_counter, r)
    /\ UNCHANGED <<args, ret, instructions>>

RunStep ==
    /\ phase = "running"
    /\ instruction_counter < Len(instructions)
    /\ CheckCalled
    /\ UNCHANGED handler
    /\ UNCHANGED database
    /\ UNCHANGED define_stack
    /\ UNCHANGED item_states
    /\ UNCHANGED analyzers
    /\ UNCHANGED type_index
    /\ UNCHANGED exit_code
    /\ UNCHANGED unit_tests
    /\ UNCHANGED overflow_checks
    /\ UNCHANGED scopes
    /\ LET instruction == instructions[instruction_counter + 1]
           r == Checked(run_step(S, instruction))
       IN  /\ Commit(r)
           /\ phase' = IF Ok(r) THEN "running" ELSE "failed"
           /\ history' = Noted(instruction, instruction_counter, r)
    /\ UNCHANGED <<args, ret, instructions>>

RunFinish ==
    /\ phase = "running"
    /\ instruction_counter >= Len(instructions)
    /\ ret' = [tag |-> "Ok", outputs |-> get_outputs(S)]
    /\ phase' = "finished"
    /\ UNCHANGED <<args, evaluation_stack, data_stack, frames_stack, conditions_stack,
                   instruction_counter, outputs, storage, error, instructions,
                   transactions, method_name, check_cs, handler, database, define_stack,
                   item_states, analyzers, type_index, exit_code, unit_tests, overflow_checks,
                   scopes, history>>

RunNext == RunStart \/ RunStep \/ RunFinish

\* the index of the instruction that closes the block opened at index i
\* (indexes count from 0, as the instruction counter does)
RECURSIVE MatchFrom(_, _, _, _, _)
MatchFrom(program, k, depth, opens, close) ==
    IF k >= Len(program) THEN Len(program)
    ELSE LET op == program[k + 1].op
         IN  IF op = close
             THEN IF depth = 0 THEN k
                  ELSE MatchFrom(program, k + 1, depth - 1, opens, close)
             ELSE IF op = opens THEN MatchFrom(program, k + 1, depth + 1, opens, close)
             ELSE MatchFrom(program, k + 1, depth, opens, close)
Match(program, i, opens, close) == MatchFrom(program, i + 1, 0, opens, close)

(* Programs with branches: every location assigned or none, then an        *)
(* if/else/endif block with assignments in its arms, one arm holding a     *)
(* nested block                                                            *)

Values == {Scalar(v, "U8") : v \in 1..MaxValue}
Assigns == {<<Push(v), Store(a)>> : v \in Values, a \in 0..MaxAddress}
Simple == {<<>>} \cup Assigns
IfBlock(c, then_arm, else_arm) ==
    <<Push(c), If>> \o then_arm \o <<Else>> \o else_arm \o <<EndIf>>
IfThen(c, then_arm) == <<Push(c), If>> \o then_arm \o <<EndIf>>
Inner ==
    {IfBlock(c, x, y) : c \in Booleans, x \in Simple, y \in Simple}
        \cup {IfThen(c, x) : c \in Booleans, x \in Simple}
Arms == Simple \cup Inner
RECURSIVE AssignAll(_, _)
AssignAll(v, address) ==
    IF address < 0 THEN <<>>
    ELSE AssignAll(v, address - 1) \o <<Push(v), Store(address)>>
Assigned == {<<>>} \cup {AssignAll(v, MaxAddress) : v \in Values}

BranchInit ==
    \E pre \in Assigned, c \in Booleans, x \in Arms, y \in Arms :
        /\ x \in Simple \/ y \in Simple
        /\ \E else_arm \in BOOLEAN :
              /\ ~else_arm => y = <<>>
              /\ RunInit(pre \o IF else_arm THEN IfBlock(c, x, y) ELSE IfThen(c, x))

SpecBranch == BranchInit /\ [][RunNext]_vars

Merged == phase = "running" /\ history.op = "EndIf" /\ error = "none"

\* C3: after endif every data-stack location holds select(c, value at the end of
\* the then arm, value at the end of the else arm), an arm that did not write the
\* location (or is missing) ending with the value from before the branch; and both
\* arms are executed: at the end of the run every instruction has been executed once
C3_BranchMerge ==
    /\ Merged =>
          \A address \in 0..MaxAddress :
              LET a == CellAt(history.merge.then_end, address)
                  b == CellAt(history.merge.else_end, address)
              IN  (a # NoCell /\ b # NoCell) =>
                      CellAt(data_stack.memory, address).value =
                          IF history.merge.condition = 1 THEN a.value ELSE b.value
    /\ (phase = "finished" /\ \A k \in 1..Len(instructions) :
                                 instructions[k].op # "LoopBegin") =>
          \A k \in 1..Len(instructions) : history.executed[k] = 1

\* a location written with different values in the two arms of a false condition
C3_Witness ==
    /\ Merged
    /\ history.merge.condition = 0
    /\ \E address \in 0..MaxAddress :
          /\ CellAt(history.merge.then_end, address) # NoCell
          /\ CellAt(history.merge.else_end, address) # NoCell
          /\ CellAt(history.merge.then_end, address) #
                CellAt(history.merge.else_end, address)
          /\ CellAt(data_stack.memory, address) = CellAt(history.merge.else_end, address)

-----------------------------------------------------------------------------
(* Programs with loops: one loop, two loops in sequence and a loop nested  *)
(* in another, with assignments and a branch in their bodies, then Exit    *)

LoopBodies ==
    Simple \cup {IfThen(c, <<Push(Scalar(MaxValue, "U8")), Store(0)>>) : c \in Booleans}
Single(n, body) == <<LoopBegin(n)>> \o body \o <<LoopEnd>>
Nested(n, body, inner) == <<LoopBegin(n)>> \o body \o inner \o <<LoopEnd>>
LoopInit ==
    \E n \in 1..MaxIterations, m \in 1..MaxIterations, x \in LoopBodies, y \in Simple :
        \/ RunInit(Single(n, x) \o <<Exit(0)>>)
        \/ RunInit(Single(n, x) \o Single(m, y) \o <<Exit(0)>>)
        \/ RunInit(Nested(n, x, Single(m, y)) \o <<Exit(0)>>)

\* the loop of State::run is sequential code: a turn that can be taken is taken
SpecLoop == LoopInit /\ [][RunNext]_vars /\ WF_vars(RunNext)

Blocks == TopFrame(S).blocks
AtOp(op) ==
    /\ phase = "running"
    /\ instruction_counter < Len(instructions)
    /\ instructions[instruction_counter + 1].op = op

\* loopBegin(n) has pushed Loop{first body instruction, n - 1}
LoopPushed ==
    (phase = "running" /\ history.op = "LoopBegin") =>
        /\ error = "none"
        /\ Len(Blocks) > 0
        /\ Last(Blocks) = Loop(history.at + 1, instructions[history.at + 1].a - 1)
        /\ instruction_counter = history.at + 1

\* a loopEnd with iterations left rewinds and decrements, the last one pops
LoopEndStep ==
    AtOp("LoopEnd") =>
        /\ Len(Blocks) > 0
        /\ Last(Blocks).kind = "Loop"
        /\ error' = "none"
        /\ IF Last(Blocks).iterations_left # 0
           THEN /\ instruction_counter' = Last(Blocks).first_instruction_index
                /\ TopFrame(S)'.blocks =
                      Append(Front(Blocks),
                             [Last(Blocks) EXCEPT !.iterations_left = @ - 1])
           ELSE /\ instruction_counter' = instruction_counter + 1
                /\ TopFrame(S)'.blocks = Front(Blocks)

\* the instructions of the loop opened at index i: those up to its loopEnd that
\* are not in the body of a loop nested in it
LoopEndOf(i) == Match(instructions, i, "LoopBegin", "LoopEnd")
InLoop(i, k) ==
    /\ i < k /\ k <= LoopEndOf(i)
    /\ \A j \in (i + 1)..(k - 1) :
          instructions[j + 1].op = "LoopBegin" => LoopEndOf(j) < k

\* at the end of the run every instruction of a loop, its loopEnd included, has
\* been executed n times for each execution of its loopBegin(n), and the first
\* and the last instruction of the program once
BodiesCounted ==
    phase = "finished" =>
        /\ \A i \in 0..(Len(instructions) - 1) :
              instructions[i + 1].op = "LoopBegin" =>
                  /\ LoopEndOf(i) < Len(instructions)
                  /\ \A k \in 0..(Len(instructions) - 1) :
                        InLoop(i, k) =>
                            history.executed[k + 1] =
                                instructions[i + 1].a * history.executed[i + 1]
        /\ history.executed[1] = 1
        /\ history.executed[Len(instructions)] = 1

\* C10: for n >= 1 loopBegin(n) pushes Loop{first body instruction, n - 1}; each
\* loopEnd but the last rewinds the instruction counter and decrements
\* iterations_left, the last pops the block; the body is executed exactly n times
\* and the run of a program with loops ends
C10_LoopRunsNTimes ==
    /\ [](LoopPushed /\ BodiesCounted)
    /\ [][LoopEndStep]_vars
    /\ <>(phase = "finished")

\* a finished run whose nested loop body ran MaxIterations * MaxIterations times
C10_Witness ==
    /\ phase = "finished"
    /\ \E k \in 1..Len(instructions) :
          /\ instructions[k].op = "Store"
          /\ history.executed[k] = MaxIterations * MaxIterations

-----------------------------------------------------------------------------
(* The contract storage: storage_store, storage_load and get_outputs on a  *)
(* storage of STORAGE_ELEMENT_COUNT leaves                                 *)

STORAGE_ELEMENT_COUNT == 2

\* the arrays v, v + 1, ... of up to MaxLeafLength scalars
LeafValues ==
    {[k \in 1..n |-> Scalar(v + k - 1, "Field")] : n \in 0..MaxLeafLength, v \in 1..MaxValue}
Leaves == {ArrayLeaf(values) : values \in LeafValues} \cup {MapLeaf}
\* the indexes used: those of the leaves and one beyond them
Indexes == {Scalar(i, "Field") : i \in 0..STORAGE_ELEMENT_COUNT}
NotStored == [kind |-> "None", values |-> <<>>]
Loaded(values) == [tag |-> "Loaded", values |-> values]

\* ret: what the last operation returned; history: the last operation with its
\* index and size, and the leaf last stored at each index
StorageInit ==
    /\ \E leaves \in [1..STORAGE_ELEMENT_COUNT -> Leaves] :
          VMIs(State_new(StorageGadget_new(leaves), "main", <<>>))
    /\ instructions = <<>>
    /\ history = [op |-> "none", index |-> 0, size |-> 0,
                  last |-> [i \in 0..(STORAGE_ELEMENT_COUNT - 1) |-> NotStored]]
    /\ phase = "storage"
    /\ args = <<>>
    /\ ret = Pending
    /\ check_cs = <<>>
    /\ handler = <<>>
    /\ database = 0
    /\ define_stack = <<>>
    /\ item_states = <<>>
    /\ analyzers = <<>>
    /\ type_index = <<>>
    /\ exit_code = "Passed"
    /\ unit_tests = <<>>
    /\ overflow_checks = FALSE
    /\ scopes = <<>>

StorageStore ==
    /\ phase = "storage"
    /\ error = "none"
    /\ \E index \in Indexes, leaf \in Leaves :
          LET r == storage_store(S, index, leaf)
          IN  /\ Commit(r)
              /\ history' = IF Ok(r)
                            THEN [history EXCEPT !.op = "store", !.index = index.value,
                                                 !.size = 0,
                                                 !.last[index.value] = leaf]
                            ELSE [history EXCEPT !.op = "store", !.index = index.value,
                                                 !.size = 0]
    /\ ret' = Pending
    /\ UNCHANGED <<args, instructions, phase, check_cs, handler, database, define_stack,
                   item_states, analyzers, type_index, exit_code, unit_tests, overflow_checks,
                   scopes>>

StorageLoad ==
    /\ phase = "storage"
    /\ error = "none"
    /\ \E index \in Indexes, size \in 0..MaxLeafLength :
          /\ IF storage_load_fails(S, index)
             THEN /\ error' = "InvalidStorageValue"
                  /\ ret' = Pending
             ELSE /\ error' = error
                  /\ ret' = Loaded(storage_load(S, index, size))
          /\ history' = [history EXCEPT !.op = "load", !.index = index.value,
                                        !.size = size]
    /\ UNCHANGED <<args, evaluation_stack, data_stack, frames_stack, conditions_stack,
                   instruction_counter, outputs, storage, instructions, transactions,
                   method_name, phase, check_cs, handler, database, define_stack, item_states,
                   analyzers, type_index, exit_code, unit_tests, overflow_checks, scopes>>

StorageOutputs ==
    /\ phase = "storage"
    /\ error = "none"
    /\ ret' = [tag |-> "Ok", outputs |-> get_outputs(S)]
    /\ history' = [history EXCEPT !.op = "outputs", !.index = 0, !.size = 0]
    /\ phase' = "finished"
    /\ UNCHANGED <<args, evaluation_stack, data_stack, frames_stack, conditions_stack,
                   instruction_counter, outputs, storage, error, instructions,
                   transactions, method_name, check_cs, handler, database, define_stack,
                   item_states, analyzers, type_index, exit_code, unit_tests, overflow_checks,
                   scopes>>

StorageNext == StorageStore \/ StorageLoad \/ StorageOutputs

SpecStorage == StorageInit /\ [][StorageNext]_vars

HasLoaded == phase = "storage" /\ history.op = "load" /\ error = "none"

HasStored == phase = "storage" /\ history.op = "store" /\ error = "none"

\* C7: a store to index i leaves what load returns for every other index as it was
C7_StoreFrame ==
    [][(HasStored' /\ storage' # storage) =>
          \A j \in Indexes :
              (j.value # history'.index /\ ~load_fails(storage, j)) =>
                  /\ ~load_fails(storage', j)
                  /\ StorageGadget_load(storage', 0, j) = StorageGadget_load(storage, 0, j)
      ]_vars

\* a store that changed the first leaf, next to a second leaf that holds values
C7_Witness ==
    /\ HasStored
    /\ history.index = 0
    /\ history.last[0].kind = "Array"
    /\ history.last[1] = NotStored
    /\ Len(StorageGadget_load(storage, 0, Scalar(1, "Field"))) = MaxLeafLength

\* C8: the root hash of the storage gadget is the Merkle root of the backing
\* storage in every state, and the last output of a run is that root
C8_RootHashIsMerkleRoot ==
    /\ StorageGadget_root_hash(storage).value = tree_root_hash(storage.leaves)
    /\ (phase = "finished" /\ history.op = "outputs") =>
          Last(ret.outputs) = tree_root_hash(storage.leaves)

\* C9: storage_load(index, size) of an Array leaf returns exactly size scalars
C9_LoadReturnsSize ==
    (HasLoaded /\ tree_load(storage.leaves, history.index).kind = "Array") =>
        Len(ret.values) = history.size

-----------------------------------------------------------------------------
(* Programs with a call: main pushes p values (up to one more than a call   *)
(* passes), calls the callee with k arguments and exits with e values; the *)
(* callee pushes q values and returns m, or exits with them; the run       *)
(* carries n transactions                                                  *)
(* and a input values                                                      *)

TransactionMsg(i) ==
    [sender |-> 4 * i + 1, recipient |-> 4 * i + 2, token_address |-> 4 * i + 3,
     amount |-> 4 * i + 4]
TransactionMsg_default == [sender |-> 0, recipient |-> 0, token_address |-> 0, amount |-> 0]

\* Input::new: a single transaction is followed by a default one
Input_new(txs) == IF Len(txs) = 1 THEN Append(txs, TransactionMsg_default) ELSE txs

Pushes(first, n) == [i \in 1..n |-> Push(Scalar(first + i - 1, "U8"))]
\* the a input values of the method
InputValues(a) == [i \in 1..a |-> Scalar(MaxArguments + i, "U8")]
CallProgram(p, k, e, q, m, exits) ==
    Pushes(1, p) \o <<Call(p + 2, k), Exit(e)>> \o Pushes(p + 1, q)
        \o <<IF exits THEN Exit(m) ELSE Return(m)>>

CallInit ==
    \E p \in 0..(MaxArguments + 1), k \in 0..MaxArguments, e \in 0..MaxArguments,
       q \in 0..MaxArguments, m \in 0..MaxArguments, n \in 0..MaxTransactions,
       a \in 0..MaxArguments, exits \in BOOLEAN :
        RunInitWith(CallProgram(p, k, e, q, m, exits),
                    StorageGadget_new(<<ArrayLeaf(<<Scalar(1, "Field")>>)>>),
                    "main",
                    Input_new([i \in 1..n |-> TransactionMsg(i - 1)]),
                    InputValues(a), <<>>)

SpecCall == CallInit /\ [][RunNext]_vars

\* the cells of the level of the evaluation stack the instruction worked on
LevelBefore == Last(history.before.evaluation_stack)
Level == Last(evaluation_stack)
TopCells(level, n) == SubSeq(level, Len(level) - n + 1, Len(level))
Operand == instructions[history.at + 1].a

Returned == phase \in {"running", "failed"} /\ history.op = "Return"

\* C11: return(m) in a frame created by call pops that frame, continues at the
\* instruction after the call, drops the data stack from the frame's
\* stack_frame_start upwards and leaves the m returned values on top of the
\* evaluation stack in the order the callee pushed them; with fewer than m values
\* it fails with StackUnderflow
C11_ReturnRestores ==
    Returned =>
        IF Len(LevelBefore) < Operand
        THEN error = "StackUnderflow" /\ phase = "failed"
        ELSE /\ error = "none"
             /\ frames_stack = Front(history.before.frames_stack)
             /\ instruction_counter = history.site + 1
             /\ Len(data_stack.memory) <=
                   Last(history.before.frames_stack).stack_frame_start
             /\ Len(Level) >= Operand
             /\ TopCells(Level, Operand) = TopCells(LevelBefore, Operand)

\* a return of MaxArguments values from a callee whose frame holds transactions
\* and arguments
C11_Witness ==
    /\ Returned
    /\ error = "none"
    /\ Operand = MaxArguments
    /\ Len(history.before.data_stack.memory) >
          Last(history.before.frames_stack).stack_frame_start
    /\ Len(history.before.transactions) > 0
    /\ TopCells(Level, Operand)[1] # TopCells(Level, Operand)[Operand]

InputsCount == instructions[history.at + 1].b
Called == phase \in {"running", "failed"} /\ history.op = "Call"
\* the frame the call has pushed
CalleeStart == Last(history.before.frames_stack).stack_frame_end

\* C12: call(addr, k) pops the top k values and writes them to k consecutive slots
\* of the new frame, the value pushed first lowest and the top of the stack
\* highest, then continues at addr; with fewer than k values it fails with
\* StackUnderflow
C12_CallStoresArguments ==
    Called =>
        IF Len(LevelBefore) < InputsCount
        THEN error = "StackUnderflow" /\ phase = "failed"
        ELSE /\ error = "none"
             /\ instruction_counter = Operand
             /\ Len(frames_stack) = Len(history.before.frames_stack) + 1
             /\ Last(frames_stack).stack_frame_start = CalleeStart
             /\ Level = SubSeq(LevelBefore, 1, Len(LevelBefore) - InputsCount)
             /\ \A j \in 1..InputsCount :
                   CellAt(data_stack.memory, CalleeStart + TRANSACTION_SIZE + j - 1) =
                       TopCells(LevelBefore, InputsCount)[j]

\* a call with MaxArguments arguments below which a value stays on the stack
C12_Witness ==
    /\ Called
    /\ error = "none"
    /\ InputsCount = MaxArguments
    /\ Len(Level) > 0
    /\ CellAt(data_stack.memory, CalleeStart + TRANSACTION_SIZE) #
          CellAt(data_stack.memory, CalleeStart + TRANSACTION_SIZE + MaxArguments - 1)

\* the method has been called by State::run and no instruction executed yet
Entered == phase = "running" /\ history.op = "none" /\ error = "none"
MethodStart == Last(frames_stack).stack_frame_start

\* C13: for N input transactions the slots 0 .. 4N-1 of the frame of the method
\* hold sender, recipient, token_address and amount of the transactions in order,
\* and the input slots of the method begin right after them (slot 4N)
C13_InputsFollowTransactions ==
    Entered =>
        /\ \A i \in 1..Len(transactions) : \A f \in 1..4 :
              CellAt(data_stack.memory, MethodStart + 4 * (i - 1) + f - 1) =
                  TransactionFields(transactions[i])[f]
        /\ \A j \in 1..Len(args) :
              CellAt(data_stack.memory, MethodStart + 4 * Len(transactions) + j - 1) =
                  args[j]

Exited == history.op = "Exit" /\ error = "none"
ValuesOf(cells) == [i \in 1..Len(cells) |-> cells[i].value]

\* C14: exit(k) in a method other than the constructor pops k values and stops
\* the run: no instruction is fetched after it, and the run returns the k values
\* in the order they were pushed, followed by the root hash of the storage
C14_ExitStopsAndOutputs ==
    /\ (Exited /\ phase = "running") =>
          /\ instruction_counter >= Len(instructions)
          /\ Level = SubSeq(LevelBefore, 1, Len(LevelBefore) - Operand)
          /\ outputs = TopCells(LevelBefore, Operand)
    /\ (Exited /\ phase = "finished") =>
          /\ history.executed[history.at + 1] = 1
          /\ ret.tag = "Ok"
          /\ ret.outputs = ValuesOf(TopCells(LevelBefore, Operand))
                              \o <<StorageGadget_root_hash(storage).value>>
    /\ (history.op = "Exit" /\ Len(LevelBefore) >= Operand) => error = "none"

\* a finished run whose callee exited with MaxArguments values, leaving the
\* instructions after its call unexecuted
C14_Witness ==
    /\ Exited
    /\ phase = "finished"
    /\ Operand = MaxArguments
    /\ Len(ret.outputs) = MaxArguments + 1
    /\ ret.outputs[1] # ret.outputs[MaxArguments]
    /\ Len(frames_stack) = 4
    /\ \E k \in 1..Len(instructions) :
          instructions[k].op = "Exit" /\ history.executed[k] = 0

-----------------------------------------------------------------------------
(* Runs that fail: the programs with a call, whose instructions underflow  *)
(* the evaluation stack, under a check_cs that returns an error at its     *)
(* c-th call (never for c = 0)                                             *)

Checks(c) == [i \in 1..c |-> i < c]

FailInit ==
    \E p \in 0..(MaxArguments + 1), k \in 0..MaxArguments, e \in 0..MaxArguments,
       q \in 0..MaxArguments, m \in 0..MaxArguments, c \in 0..MaxChecks :
        RunInitWith(CallProgram(p, k, e, q, m, FALSE), NoStorage, "main", <<>>, <<>>,
                    Checks(c))

SpecFail == FailInit /\ [][RunNext]_vars

\* a step is taken only by a run that has not failed; an error ends the run with
\* no outputs; a turn of the loop executes the instruction at instruction_counter
\* and only that one; the run ends without error only beyond the last instruction
FailStopStep ==
    /\ phase \in {"new", "running"}
    /\ error = "none"
    /\ error' # "none" => (phase' = "failed" /\ ret' = Pending)
    /\ (phase = "running" /\ phase' # "finished") =>
          /\ instruction_counter < Len(instructions)
          /\ history'.at = instruction_counter
          /\ history'.op = instructions[instruction_counter + 1].op
          /\ history'.executed =
                [history.executed EXCEPT ![instruction_counter + 1] = @ + 1]
    /\ phase' = "finished" =>
          /\ phase = "running"
          /\ error' = "none"
          /\ instruction_counter >= Len(instructions)
          /\ history' = history

\* C15: the run is fail-stop: once execute or the constraint check after it
\* returns an error the run returns it, fetches and executes nothing more and
\* produces no outputs; otherwise the instructions are executed one at a time at
\* instruction_counter until it is beyond the program
C15_FailStop ==
    /\ [][FailStopStep]_vars
    /\ [](phase = "failed" <=> error # "none")
    /\ [](phase = "failed" => ret = Pending)

\* a run stopped by the constraint check after an instruction, with instructions
\* left unexecuted
C15_Witness ==
    /\ phase = "failed"
    /\ error = "UnsatisfiedConstraint"
    /\ history.op = "Call"
    /\ \E k \in 1..Len(instructions) : history.executed[k] = 0

-----------------------------------------------------------------------------
(* zinc-bytecode: the encoding of the instructions LoadGlobal and EndIf    *)

InstructionCode_LoadGlobal == 6
InstructionCode_EndIf == 32
USIZE_BYTES == 8

LoadGlobal(address) == Instr("LoadGlobal", address, 0, NoCell)

RECURSIVE usize_to_le_bytes(_, _)
usize_to_le_bytes(n, count) ==
    IF count = 0 THEN <<>>
    ELSE <<n % 256>> \o usize_to_le_bytes(n \div 256, count - 1)
RECURSIVE usize_from_le_bytes(_)
usize_from_le_bytes(bytes) ==
    IF Len(bytes) = 0 THEN 0
    ELSE bytes[1] + 256 * usize_from_le_bytes(Tail(bytes))

RECURSIVE EncodedArgs(_)
EncodedArgs(arguments) ==
    IF Len(arguments) = 0 THEN <<>>
    ELSE usize_to_le_bytes(arguments[1], USIZE_BYTES) \o EncodedArgs(Tail(arguments))

\* utils::encode_with_args: the opcode, then each argument as 8 bytes little-endian
encode_with_args(code, arguments) == <<code>> \o EncodedArgs(arguments)

Decoded(instruction, len) == [tag |-> "Ok", instruction |-> instruction, len |-> len]
DecodingError(kind) == [tag |-> "Err", instruction |-> kind, len |-> 0]

\* utils::decode_with_usize_args: the arguments and the consumed length
decode_with_usize_args(code, bytes, args_count) ==
    IF Len(bytes) = 0 THEN DecodingError("UnexpectedEOF")
    ELSE IF bytes[1] # code THEN DecodingError("UnknownInstructionCode")
    ELSE IF Len(bytes) < 1 + USIZE_BYTES * args_count THEN DecodingError("UnexpectedEOF")
    ELSE Decoded([k \in 1..args_count |->
                     usize_from_le_bytes(SubSeq(bytes, 2 + USIZE_BYTES * (k - 1),
                                                1 + USIZE_BYTES * k))],
                 1 + USIZE_BYTES * args_count)

\* utils::decode_simple_instruction
decode_simple_instruction(code, instruction, bytes) ==
    IF Len(bytes) = 0 THEN DecodingError("UnexpectedEOF")
    ELSE IF bytes[1] # code THEN DecodingError("UnknownInstructionCode")
    ELSE Decoded(instruction, 1)

LoadGlobal_encode(i) == encode_with_args(InstructionCode_LoadGlobal, <<i.a>>)

\* a decode that looks for the opcode of another instruction
LoadGlobal_decode_other_code(bytes) ==
    LET r == decode_with_usize_args(InstructionCode_EndIf, bytes, 1)
    IN  IF r.tag = "Err" THEN r ELSE Decoded(LoadGlobal(r.instruction[1]), r.len)

LoadGlobal_decode(bytes) ==
    LET r == decode_with_usize_args(InstructionCode_LoadGlobal, bytes, 1)
    IN  IF r.tag = "Err" THEN r ELSE Decoded(LoadGlobal(r.instruction[1]), r.len)

EndIf_encode(i) == <<InstructionCode_EndIf>>
EndIf_decode(bytes) == decode_simple_instruction(InstructionCode_EndIf, EndIf, bytes)

\* the encoding and the decoding of any instruction: by its variant, by the opcode
Instruction_encode(i) ==
    IF i.op = "LoadGlobal" THEN LoadGlobal_encode(i) ELSE EndIf_encode(i)
Instruction_decode(bytes) ==
    IF Len(bytes) = 0 THEN DecodingError("UnexpectedEOF")
    ELSE IF bytes[1] = InstructionCode_LoadGlobal THEN LoadGlobal_decode(bytes)
    ELSE IF bytes[1] = InstructionCode_EndIf THEN EndIf_decode(bytes)
    ELSE DecodingError("UnknownInstructionCode")

RECURSIVE encode_all(_)
encode_all(program) ==
    IF Len(program) = 0 THEN <<>>
    ELSE Instruction_encode(program[1]) \o encode_all(Tail(program))

(* A program of LoadGlobal and EndIf instructions is encoded, then decoded *)
(* one instruction at a time from the bytes                                *)

\* addresses of one and two base-256 digits, and the largest ones
CodecAddresses ==
    {high * 256 + low : high \in 0..MaxDigit, low \in 0..MaxDigit}
        \cup {USIZE_MAX - low : low \in 0..MaxDigit}
CodecInstructions == {EndIf} \cup {LoadGlobal(address) : address \in CodecAddresses}
Decoding(decoded, offset) == [tag |-> "Decoding", decoded |-> decoded, offset |-> offset]

\* args: the bytes; ret: the instructions decoded so far and the bytes consumed
CodecInit ==
    /\ \E n \in 0..MaxProgram : instructions \in [1..n -> CodecInstructions]
    /\ VMIs(State_new(NoStorage, "main", <<>>))
    /\ history = NoHistory
    /\ check_cs = <<>>
    /\ handler = <<>>
    /\ database = 0
    /\ define_stack = <<>>
    /\ item_states = <<>>
    /\ analyzers = <<>>
    /\ type_index = <<>>
    /\ exit_code = "Passed"
    /\ unit_tests = <<>>
    /\ overflow_checks = FALSE
    /\ scopes = <<>>
    /\ phase = "program"
    /\ args = <<>>
    /\ ret = Decoding(<<>>, 0)

CodecUnchanged ==
    UNCHANGED <<evaluation_stack, data_stack, frames_stack, conditions_stack,
                instruction_counter, outputs, storage, error, instructions,
                transactions, method_name, check_cs, handler, database, define_stack,
                item_states, analyzers, type_index, exit_code, unit_tests, overflow_checks,
                scopes, history>>

CodecEncode ==
    /\ phase = "program"
    /\ args' = encode_all(instructions)
    /\ phase' = "encoded"
    /\ UNCHANGED ret
    /\ CodecUnchanged

CodecDecode ==
    /\ phase = "encoded"
    /\ ret.offset < Len(args)
    /\ LET r == Instruction_decode(SubSeq(args, ret.offset + 1, Len(args)))
       IN  IF r.tag = "Err"
           THEN /\ ret' = r
                /\ phase' = "failed"
           ELSE /\ ret' = Decoding(Append(ret.decoded, r.instruction), ret.offset + r.len)
                /\ phase' = phase
    /\ UNCHANGED args
    /\ CodecUnchanged

CodecDone ==
    /\ phase = "encoded"
    /\ ret.offset >= Len(args)
    /\ phase' = "decoded"
    /\ UNCHANGED <<args, ret>>
    /\ CodecUnchanged

CodecNext == CodecEncode \/ CodecDecode \/ CodecDone

SpecCodec == CodecInit /\ [][CodecNext]_vars

\* C16: decode(encode(i)) is i with the length of encode(i) consumed, for every
\* LoadGlobal{address} and for EndIf, so the concatenated encodings of a sequence
\* of instructions decode to that sequence
C16_EncodeDecodeRoundTrip ==
    /\ phase # "failed"
    /\ phase \in {"encoded", "decoded"} =>
          /\ Len(ret.decoded) <= Len(instructions)
          /\ ret.decoded = SubSeq(instructions, 1, Len(ret.decoded))
          /\ ret.offset = Len(encode_all(SubSeq(instructions, 1, Len(ret.decoded))))
    /\ phase = "decoded" => ret.decoded = instructions

\* a decoded program of MaxProgram instructions: an address of two digits, an EndIf
C16_Witness ==
    /\ phase = "decoded"
    /\ Len(instructions) = MaxProgram
    /\ ret.decoded = instructions
    /\ instructions[1].op = "LoadGlobal"
    /\ instructions[1].a = MaxDigit * 256 + 1
    /\ instructions[MaxProgram] = EndIf

-----------------------------------------------------------------------------
(* zinc-compiler/src/semantic/scope/mod.rs                                 *)

\* Keyword::SelfLowercase, the name of the module alias and of the instance
SelfLowercase == "self"
\* the identifiers declared and resolved
Names == {"a", "b", SelfLowercase}
\* Identifier::is_self_lowercase
is_self_lowercase(identifier) == identifier = SelfLowercase

\* the location of the identifier that declares `identifier` in `scope`
Location(scope, identifier) == [scope |-> scope, identifier |-> identifier]
\* an item of a scope: its variant, Item::location, Item::is_associated and,
\* for a module, a structure, an enumeration or a contract, its own scope
\* (NoScope for the items that are no namespace)
NoScope == 0
Item(kind, location, is_associated, scope) ==
    [kind |-> kind, location |-> location, is_associated |-> is_associated,
     scope |-> scope]
NoItem == [kind |-> "None"]

\* Scope::new: `parent` is NoScope for a scope without a parent
Scope_new(parent) == [parent |-> parent, items |-> [name \in Names |-> NoItem]]
\* the intrinsic scope, which Scope::new_global makes the parent of a module
IntrinsicScope == 1
Scope_new_intrinsic == Scope_new(NoScope)
Scope_new_global == Scope_new(IntrinsicScope)
\* Scope::new_child: the scope it creates is the last of `sc`
new_child(sc, parent) == Append(sc, Scope_new(parent))

\* the results and the errors of the scope operations
ScopeOk == [tag |-> "Ok"]
Resolved(item) == [tag |-> "Ok", item |-> item]
ItemRedeclared(name, reference) ==
    [tag |-> "Err", error |-> "ItemRedeclared", name |-> name, reference |-> reference]
ItemUndeclared(name) == [tag |-> "Err", error |-> "ItemUndeclared", name |-> name]
ItemIsNotANamespace(name) ==
    [tag |-> "Err", error |-> "ItemIsNotANamespace", name |-> name]
AssociatedItemWithoutOwner(name) ==
    [tag |-> "Err", error |-> "AssociatedItemWithoutOwner", name |-> name]

\* Scope::insert_item
insert_item(sc, scope, name, item) == [sc EXCEPT ![scope].items[name] = item]

RECURSIVE resolve_item(_, _, _, _)

\* a resolve_item that looks at the items of `scope` alone
resolve_item_local(sc, scope, identifier, recursive) ==
    IF sc[scope].items[identifier] # NoItem
    THEN Resolved(sc[scope].items[identifier])
    ELSE ItemUndeclared(identifier)

\* Scope::resolve_item
resolve_item(sc, scope, identifier, recursive) ==
    IF sc[scope].items[identifier] # NoItem
    THEN Resolved(sc[scope].items[identifier])
    ELSE IF sc[scope].parent # NoScope /\ recursive
         THEN resolve_item(sc, sc[scope].parent, identifier, recursive)
         ELSE ItemUndeclared(identifier)

\* what a declaration returns: the scopes it leaves and its Result
Declared(sc, result) == [scopes |-> sc, result |-> result]

\* a define_item that inserts the item whatever the scope declares
define_item_unchecked(sc, scope, identifier, item) ==
    Declared(insert_item(sc, scope, identifier, item), ScopeOk)

\* Scope::define_item
define_item(sc, scope, identifier, item) ==
    LET resolved == resolve_item(sc, scope, identifier, TRUE)
    IN  IF resolved.tag = "Ok"
        THEN Declared(sc, ItemRedeclared(identifier, resolved.item.location))
        ELSE Declared(insert_item(sc, scope, identifier, item), ScopeOk)

\* a define_variable that looks `self` up through the parents as well
define_variable_recursive(sc, scope, identifier) ==
    LET resolved == resolve_item(sc, scope, identifier, TRUE)
        item == Item("Variable", Location(scope, identifier), FALSE, NoScope)
    IN  IF resolved.tag = "Ok"
        THEN Declared(sc, ItemRedeclared(identifier, resolved.item.location))
        ELSE Declared(insert_item(sc, scope, identifier, item), ScopeOk)

\* Scope::define_variable
define_variable(sc, scope, identifier) ==
    LET resolved == resolve_item(sc, scope, identifier, ~is_self_lowercase(identifier))
        item == Item("Variable", Location(scope, identifier), FALSE, NoScope)
    IN  IF resolved.tag = "Ok"
        THEN Declared(sc, ItemRedeclared(identifier, resolved.item.location))
        ELSE Declared(insert_item(sc, scope, identifier, item), ScopeOk)

\* Scope::declare_constant
declare_constant(sc, scope, identifier, is_associated) ==
    LET resolved == resolve_item(sc, scope, identifier, TRUE)
        item == Item("Constant", Location(scope, identifier), is_associated, NoScope)
    IN  IF resolved.tag = "Ok"
        THEN Declared(sc, ItemRedeclared(identifier, resolved.item.location))
        ELSE Declared(insert_item(sc, scope, identifier, item), ScopeOk)

\* Scope::define_constant
define_constant(sc, scope, identifier, is_associated) ==
    LET resolved == resolve_item(sc, scope, identifier, TRUE)
        item == Item("Constant", Location(scope, identifier), is_associated, NoScope)
    IN  IF resolved.tag = "Ok"
        THEN Declared(sc, ItemRedeclared(identifier, resolved.item.location))
        ELSE Declared(insert_item(sc, scope, identifier, item), ScopeOk)

\* Scope::declare_type of a `struct` statement: the structure's own scope is a
\* child of the scope that declares it (the namespace_scope of the `struct`
\* analyzer)
declare_type(sc, scope, identifier, is_associated) ==
    LET resolved == resolve_item(sc, scope, identifier, TRUE)
        namespace_scope == Len(sc) + 1
        item == Item("Type", Location(scope, identifier), is_associated, namespace_scope)
    IN  IF resolved.tag = "Ok"
        THEN Declared(sc, ItemRedeclared(identifier, resolved.item.location))
        ELSE Declared(insert_item(new_child(sc, scope), scope, identifier, item), ScopeOk)

\* Scope::define_type: `type_scope` is the scope of the evaluated type, NoScope
\* for a type that is no structure, enumeration or contract
define_type(sc, scope, identifier, type_scope, is_associated) ==
    LET resolved == resolve_item(sc, scope, identifier, TRUE)
        item == Item("Type", Location(scope, identifier), is_associated, type_scope)
    IN  IF resolved.tag = "Ok"
        THEN Declared(sc, ItemRedeclared(identifier, resolved.item.location))
        ELSE Declared(insert_item(sc, scope, identifier, item), ScopeOk)

\* Scope::declare_module: the module scope is a new global scope, which gets
\* the module item as its `self` alias
declare_module(sc, scope, identifier) ==
    LET resolved == resolve_item(sc, scope, identifier, TRUE)
        module_scope == Len(sc) + 1
        item == Item("Module", Location(scope, identifier), FALSE, module_scope)
    IN  IF resolved.tag = "Ok"
        THEN Declared(sc, ItemRedeclared(identifier, resolved.item.location))
        ELSE Declared(insert_item(insert_item(Append(sc, Scope_new_global),
                                              module_scope, SelfLowercase, item),
                                  scope, identifier, item),
                      ScopeOk)

\* the loop of Scope::resolve_path from the element `index` of the path on
RECURSIVE resolve_path_from(_, _, _, _)
resolve_path_from(sc, current_scope, path, index) ==
    IF index > Len(path)
    THEN ItemUndeclared(path)
    ELSE LET is_element_first == index = 1
             is_element_last == index = Len(path)
             identifier == path[index]
             resolved == resolve_item(sc, current_scope, identifier, is_element_first)
         IN  IF resolved.tag # "Ok" THEN resolved
             ELSE IF Len(path) = 1 /\ resolved.item.is_associated
             THEN AssociatedItemWithoutOwner(path)
             ELSE IF is_element_last THEN Resolved(resolved.item)
             ELSE IF resolved.item.kind = "Module"
             THEN resolve_path_from(sc, resolved.item.scope, path, index + 1)
             ELSE IF resolved.item.kind = "Type" /\ resolved.item.scope # NoScope
             THEN resolve_path_from(sc, resolved.item.scope, path, index + 1)
             ELSE ItemIsNotANamespace(identifier)

\* Scope::resolve_path
resolve_path(sc, scope, path) == resolve_path_from(sc, scope, path, 1)

-----------------------------------------------------------------------------
(* The scopes of a module under the declarations of the analyzer: the      *)
(* scopes are built by declarations, then one operation is observed with  *)
(* its arguments in args and its Result in ret.                            *)

\* the scopes created after the two first and the items declared, the `self`
\* alias of a module being part of the declaration of the module
Declarations(sc) ==
    Len(sc) - 2
    + Cardinality({pair \in (1..Len(sc)) \X Names :
                      sc[pair[1]].items[pair[2]].kind \notin {"None", "Module"}
                      \/ (sc[pair[1]].items[pair[2]].kind = "Module"
                          /\ pair[2] # SelfLowercase)})
\* the scopes a declaration is made in: every scope but the intrinsic one
Declaring == 2..Len(scopes)
\* the identifiers of items: `self` is declared by define_variable alone
Identifiers == Names \ {SelfLowercase}
\* the paths resolved: one identifier, or two around `::`
Paths == {<<first>> : first \in Names} \cup (Names \X Names)

ScopeInit ==
    /\ scopes = <<Scope_new_intrinsic, Scope_new_global>>
    /\ VMIs(State_new(NoStorage, "main", <<>>))
    /\ instructions = <<>>
    /\ history = NoHistory
    /\ check_cs = <<>>
    /\ handler = <<>>
    /\ database = 0
    /\ define_stack = <<>>
    /\ item_states = <<>>
    /\ analyzers = <<>>
    /\ type_index = <<>>
    /\ exit_code = "Passed"
    /\ unit_tests = <<>>
    /\ overflow_checks = FALSE
    /\ phase = "scopes"
    /\ args = <<>>
    /\ ret = Pending

ScopeUnchanged ==
    UNCHANGED <<evaluation_stack, data_stack, frames_stack, conditions_stack,
                instruction_counter, outputs, storage, error, instructions,
                transactions, method_name, check_cs, handler, database, define_stack,
                item_states, analyzers, type_index, exit_code, unit_tests, overflow_checks,
                history>>

\* the declaration `op` of `identifier` in `scope` left `declared`; an observed
\* declaration is the last operation
Declare(observed, op, scope, identifier, is_associated, declared) ==
    /\ phase = "scopes"
    /\ observed \/ Declarations(scopes) < MaxDeclarations
    /\ scopes' = declared.scopes
    /\ IF observed
       THEN /\ args' = [op |-> op, scope |-> scope, identifier |-> identifier,
                        is_associated |-> is_associated]
            /\ ret' = declared.result
            /\ phase' = "declared"
       ELSE UNCHANGED <<args, ret, phase>>
    /\ ScopeUnchanged

ScopeNewChild ==
    /\ phase = "scopes"
    /\ Declarations(scopes) < MaxDeclarations
    /\ \E parent \in Declaring : scopes' = new_child(scopes, parent)
    /\ UNCHANGED <<args, ret, phase>>
    /\ ScopeUnchanged

ScopeDefineItem ==
    \E observed \in BOOLEAN, scope \in Declaring, identifier \in Identifiers :
        Declare(observed, "define_item", scope, identifier, FALSE,
                define_item(scopes, scope, identifier,
                            Item("Type", Location(scope, identifier), FALSE, NoScope)))

ScopeDefineVariable ==
    \E observed \in BOOLEAN, scope \in Declaring, identifier \in Names :
        Declare(observed, "define_variable", scope, identifier, FALSE,
                define_variable(scopes, scope, identifier))

ScopeDeclareConstant ==
    \E observed \in BOOLEAN, scope \in Declaring, identifier \in Identifiers,
       is_associated \in BOOLEAN :
        Declare(observed, "declare_constant", scope, identifier, is_associated,
                declare_constant(scopes, scope, identifier, is_associated))

ScopeDefineConstant ==
    \E observed \in BOOLEAN, scope \in Declaring, identifier \in Identifiers,
       is_associated \in BOOLEAN :
        Declare(observed, "define_constant", scope, identifier, is_associated,
                define_constant(scopes, scope, identifier, is_associated))

ScopeDeclareType ==
    \E observed \in BOOLEAN, scope \in Declaring, identifier \in Identifiers,
       is_associated \in BOOLEAN :
        Declare(observed, "declare_type", scope, identifier, is_associated,
                declare_type(scopes, scope, identifier, is_associated))

ScopeDefineType ==
    \E observed \in BOOLEAN, scope \in Declaring, identifier \in Identifiers,
       is_associated \in BOOLEAN :
        Declare(observed, "define_type", scope, identifier, is_associated,
                define_type(scopes, scope, identifier, NoScope, is_associated))

ScopeDeclareModule ==
    \E observed \in BOOLEAN, scope \in Declaring, identifier \in Identifiers :
        Declare(observed, "declare_module", scope, identifier, FALSE,
                declare_module(scopes, scope, identifier))

ScopeResolvePath ==
    /\ phase = "scopes"
    /\ \E scope \in Declaring, path \in Paths :
        /\ args' = [op |-> "resolve_path", scope |-> scope, path |-> path]
        /\ ret' = resolve_path(scopes, scope, path)
    /\ phase' = "resolved"
    /\ UNCHANGED scopes
    /\ ScopeUnchanged

ScopeNext ==
    \/ ScopeNewChild
    \/ ScopeDefineItem
    \/ ScopeDefineVariable
    \/ ScopeDeclareConstant
    \/ ScopeDefineConstant
    \/ ScopeDeclareType
    \/ ScopeDefineType
    \/ ScopeDeclareModule
    \/ ScopeResolvePath

SpecScope == ScopeInit /\ [][ScopeNext]_vars

-----------------------------------------------------------------------------
(* Declarations and the names of a scope.                                  *)

\* `scope` and its ancestors, the nearest first
RECURSIVE Chain(_, _)
Chain(sc, scope) ==
    IF scope = NoScope THEN <<>> ELSE <<scope>> \o Chain(sc, sc[scope].parent)
\* the positions of Chain(sc, scope) whose scope declares `identifier`
Declares(sc, scope, identifier) ==
    {i \in 1..Len(Chain(sc, scope)) : sc[Chain(sc, scope)[i]].items[identifier] # NoItem}
\* the declaration of `identifier` nearest to `scope`, NoItem if there is none
Nearest(sc, scope, identifier) ==
    IF Declares(sc, scope, identifier) = {} THEN NoItem
    ELSE LET i == CHOOSE i \in Declares(sc, scope, identifier) :
                      \A j \in Declares(sc, scope, identifier) : i <= j
         IN  sc[Chain(sc, scope)[i]].items[identifier]

ItemDeclarations ==
    {"define_item", "declare_constant", "define_constant", "declare_type",
     "define_type", "declare_module"}

\* the declaration `made` on the scopes `sc` returned `result` and left the scopes `after`
DeclaredOnce(sc, after, made, result) ==
    IF Declares(sc, made.scope, made.identifier) # {}
    THEN /\ result = ItemRedeclared(made.identifier,
                                    Nearest(sc, made.scope, made.identifier).location)
         /\ after = sc
    ELSE /\ result = ScopeOk
         /\ after[made.scope].items[made.identifier] # NoItem
         /\ \A name \in Names \ {made.identifier} :
                after[made.scope].items[name] = sc[made.scope].items[name]
         /\ \A other \in (1..Len(sc)) \ {made.scope} : after[other] = sc[other]

-----------------------------------------------------------------------------
(* Paths.                                                                  *)

\* the items that are namespaces: a module, or a structure, an enumeration or
\* a contract type
Namespace(item) == item.kind \in {"Module", "Type"} /\ item.scope # NoScope

\* the item the element `index` of the path names: the nearest declaration of
\* the first identifier, and for every later identifier the item the scope of
\* the element before declares itself (NoItem where there is none)
RECURSIVE ElementAt(_, _, _, _)
ElementAt(sc, scope, path, index) ==
    IF index = 1 THEN Nearest(sc, scope, path[1])
    ELSE LET previous == ElementAt(sc, scope, path, index - 1)
         IN  IF Namespace(previous) THEN sc[previous.scope].items[path[index]]
             ELSE NoItem
\* the elements before `index` are declared namespaces
Traversed(sc, scope, path, index) ==
    \A j \in 1..(index - 1) : Namespace(ElementAt(sc, scope, path, j))
\* a path of the one name of an associated item
BareAssociated(sc, scope, path) ==
    /\ Len(path) = 1
    /\ Nearest(sc, scope, path[1]) # NoItem
    /\ Nearest(sc, scope, path[1]).is_associated

-----------------------------------------------------------------------------
(* Associated items.                                                       *)

\* the first identifier of the path resolved names an associated item
FirstAssociated ==
    /\ phase = "resolved"
    /\ Nearest(scopes, args.scope, args.path[1]) # NoItem
    /\ Nearest(scopes, args.scope, args.path[1]).is_associated

\* C19: a path whose first identifier, looked up through the parent chain,
\* names an associated item yields AssociatedItemWithoutOwner, whatever its
\* length.
C19_AssociatedNeedsOwner ==
    FirstAssociated => ret = AssociatedItemWithoutOwner(args.path)

-----------------------------------------------------------------------------
(* Variables and the `self` alias.                                         *)

\* define_variable of `made.identifier` in `made.scope` returned `result` and
\* left the scopes `after`
VariableDefined(sc, after, made, result) ==
    LET own == sc[made.scope].items[made.identifier]
        variable == after[made.scope].items[made.identifier]
    IN  IF is_self_lowercase(made.identifier)
        THEN IF own = NoItem
             THEN result = ScopeOk /\ variable.kind = "Variable"
             ELSE result = ItemRedeclared(made.identifier, own.location) /\ after = sc
        ELSE Declares(sc, made.scope, made.identifier) # {} =>
                 /\ result = ItemRedeclared(made.identifier,
                                 Nearest(sc, made.scope, made.identifier).location)
                 /\ after = sc

\* C20: define_variable of `self` looks for an earlier declaration in the
\* current scope alone: it succeeds when no item of the scope is named `self`,
\* whatever the ancestors declare, and returns ItemRedeclared when one is; for
\* any other identifier a declaration anywhere up the parent chain makes it
\* return ItemRedeclared.
C20_SelfCheckedInScopeOnly ==
    [][(phase' = "declared" /\ args'.op = "define_variable")
        => VariableDefined(scopes, scopes', args', ret')]_vars

\* `self` is defined in a scope below the scope of a module, which holds the
\* `self` alias of the module
C20_Witness ==
    /\ phase = "declared"
    /\ args.op = "define_variable"
    /\ is_self_lowercase(args.identifier)
    /\ ret = ScopeOk
    /\ Nearest(scopes, scopes[args.scope].parent, SelfLowercase).kind = "Module"

-----------------------------------------------------------------------------
(* The conditions stack.                                                   *)

\* the conjunction of the conditions of the first n open branches, each
\* negated in its else arm, with the initial predicate true
RECURSIVE PathPredicate(_, _)
PathPredicate(open, n) ==
    IF n = 0 THEN TRUE
    ELSE /\ PathPredicate(open, n - 1)
         /\ IF open[n].has_else THEN open[n].condition # 1 ELSE open[n].condition = 1

\* C25: while a program runs the top of conditions_stack is the conjunction of
\* the conditions of the open branches, each negated in its else arm, with the
\* initial predicate true, and after endif the conditions stack is the one
\* from before the matching if.
C25_ConditionsStackIsPathPredicate ==
    /\ (phase = "running" /\ error = "none") =>
          /\ Len(conditions_stack) = Len(history.open) + 1
          /\ Last(conditions_stack) =
                 new_constant_bool(PathPredicate(history.open, Len(history.open)))
    /\ Merged => conditions_stack = history.merge.conditions

\* in the else arm of a false condition a nested branch on a true condition
\* is open: the predicate is true again
C25_Witness ==
    /\ phase = "running"
    /\ error = "none"
    /\ Len(history.open) = 2
    /\ history.open[1].has_else
    /\ history.open[1].condition = 0
    /\ history.open[2].condition = 1
    /\ Last(conditions_stack) = new_constant_bool(TRUE)

-----------------------------------------------------------------------------
(* Programs that end with a control-flow instruction: after assignments a   *)
(* loop, a branch in its then arm or in its else arm, both or none is open *)
(* when Else, EndIf, LoopEnd or LoopBegin is executed, by a build that     *)
(* checks overflow or by one that does not                                 *)

Openings ==
    {<<>>}
        \cup {<<LoopBegin(n)>> : n \in 1..MaxIterations}
        \cup {<<Push(c), If>> : c \in Booleans}
        \cup {<<Push(c), If, Else>> : c \in Booleans}
        \cup {<<Push(c), If, LoopBegin(n)>> : c \in Booleans, n \in 1..MaxIterations}
        \cup {<<LoopBegin(n), Push(c), If>> : c \in Booleans, n \in 1..MaxIterations}
ControlFlow == {Else, EndIf, LoopEnd} \cup {LoopBegin(n) : n \in 0..MaxIterations}

FlowInit ==
    \E pre \in Assigned, opening \in Openings, last \in ControlFlow, checked \in BOOLEAN :
        RunInitOn(pre \o opening \o <<last>>, NoStorage, "main", <<>>, <<>>, <<>>, checked)

SpecFlow == FlowInit /\ [][RunNext]_vars

\* the last instruction of the program was executed for the first time
FlowExecuted ==
    /\ phase \in {"running", "failed"}
    /\ history.at = Len(instructions) - 1
    /\ history.executed[Len(instructions)] = 1
\* the top block of the current frame before that instruction
TopBlockKind ==
    LET blocks == Last(history.before.frames_stack).blocks
    IN  IF Len(blocks) = 0 THEN "None"
        ELSE IF Last(blocks).kind = "Loop" THEN "Loop"
        ELSE IF Last(blocks).is_else THEN "Else" ELSE "Then"

\* C26: else returns UnexpectedElse unless the top block is a Branch in its
\* then arm, endif returns UnexpectedEndIf unless the top block is a Branch,
\* loopEnd returns UnexpectedLoopEnd unless the top block is a Loop, and
\* loopBegin(n) returns Ok for every n >= 0, leaving a loop of n - 1 further
\* iterations, without a panic and without an underflow.
C26_ControlFlowTotal ==
    FlowExecuted =>
        /\ (history.op = "Else" /\ TopBlockKind # "Then") => error = "UnexpectedElse"
        /\ (history.op = "EndIf" /\ TopBlockKind \notin {"Then", "Else"})
               => error = "UnexpectedEndIf"
        /\ (history.op = "LoopEnd" /\ TopBlockKind # "Loop") => error = "UnexpectedLoopEnd"
        /\ history.op = "LoopBegin" =>
               /\ error = "none"
               /\ Last(Last(frames_stack).blocks).iterations_left
                      <= instructions[Len(instructions)].a

-----------------------------------------------------------------------------
(* Programs with frames: main assigns a location, calls a callee and       *)
(* exits; the callee assigns a location, calls a second callee or not, and *)
(* returns; the second callee assigns a location and returns               *)

FramesProgram(first, second, nested, third) ==
    first \o <<Call(4, 0), Exit(0)>>
          \o second \o (IF nested THEN <<Call(8, 0)>> ELSE <<>>) \o <<Return(0)>>
          \o (IF nested THEN third \o <<Return(0)>> ELSE <<>>)

FramesInit ==
    \E first \in Assigns, second \in Assigns, nested \in BOOLEAN, third \in Assigns :
        /\ ~nested => third = first
        /\ RunInit(FramesProgram(first, second, nested, third))

SpecFrames == FramesInit /\ [][RunNext]_vars

\* the slots below `limit` hold in `memory` what they hold in `other`
SameBelow(limit, memory, other) ==
    \A index \in 0..(limit - 1) : CellAt(memory, index) = CellAt(other, index)
Stepped == phase = "running" /\ error = "none" /\ history.op # "none"

\* C27: every frame has stack_frame_start <= stack_frame_end; the frame a call
\* pushes starts at the stack_frame_end of the caller; no instruction changes
\* a slot of the data stack below the start of the frame it is executed in;
\* and after return the slots of the caller hold what they held at the call.
C27_FramesDoNotOverlap ==
    /\ \A k \in 1..Len(frames_stack) :
           frames_stack[k].stack_frame_start <= frames_stack[k].stack_frame_end
    /\ (Stepped /\ history.op = "Call") =>
           Last(frames_stack).stack_frame_start
               = Last(history.before.frames_stack).stack_frame_end
    /\ Stepped =>
           SameBelow(Last(history.before.frames_stack).stack_frame_start,
                     data_stack.memory, history.before.data_stack.memory)
    /\ (Stepped /\ history.op = "Return") =>
           SameBelow(Last(frames_stack).stack_frame_end,
                     data_stack.memory, history.returned)

\* the callee has assigned its location 0 and returned, and location 0 of the
\* caller holds another value, the one it held at the call
C27_Witness ==
    /\ Stepped
    /\ history.op = "Return"
    /\ Len(history.calls) = 0
    /\ instructions[2].a = 0
    /\ instructions[6].a = 0
    /\ instructions[1].cell # instructions[5].cell
    /\ CellAt(data_stack.memory, Last(frames_stack).stack_frame_start) = instructions[1].cell

-----------------------------------------------------------------------------
(* zinc-vm/src/core/contract/facade.rs: Facade::test, the unit tests of a  *)
(* contract                                                                *)

MaxTests == 2

\* the instruction loop of State::run, lines 129-156
RECURSIVE run_loop(_, _)
run_loop(s, program) ==
    IF ~Ok(s) \/ s.instruction_counter >= Len(program) THEN s
    ELSE run_loop(run_step(s, program[s.instruction_counter + 1]), program)

\* State::run with a check_cs that returns Ok: the outputs or the error
run(program, s, input_values, address) ==
    LET s1 == run_prologue(s, input_values, address)
        s2 == IF Ok(s1) THEN run_loop(s1, program) ELSE s1
    IN  IF Ok(s2) THEN [tag |-> "Ok", outputs |-> get_outputs(s2)]
        ELSE [tag |-> "Err", error |-> s2.error]

\* a contract of two unit tests: the one at address 0 passes its require, the
\* one at address 3 fails it
TestedContract ==
    <<Push(Scalar(1, "Boolean")), Require, Exit(0),
      Push(Scalar(0, "Boolean")), Require, Exit(0)>>

\* the names of the unit tests, the keys of BuildContract.unit_tests
TestNames == <<"first", "second", "third", "fourth">>

UnitTest(name, address, should_panic, is_ignored) ==
    [name |-> name, address |-> address, should_panic |-> should_panic,
     is_ignored |-> is_ignored]

\* the result of state.run for a unit test, lines 229-236
TestResult(unit_test) ==
    run(instructions, State_new(NoStorage, unit_test.name, <<>>), <<>>,
        unit_test.address)

\* one turn of the loop of Facade::test, lines 208-262: an ignored test
\* returns Ok(Ignored) from the function, another one is run and sets
\* exit_code to Failed when its result is not the expected one
TestTurn(unit_test) ==
    IF unit_test.is_ignored
    THEN /\ ret' = [tag |-> "Ok", code |-> "Ignored"]
         /\ phase' = "returned"
         /\ UNCHANGED <<exit_code, history>>
    ELSE LET result == TestResult(unit_test)
         IN  /\ exit_code' = IF (result.tag = "Ok") = unit_test.should_panic
                             THEN "Failed" ELSE exit_code
             /\ history' = [history EXCEPT !.executed = Append(@, unit_test.name)]
             /\ UNCHANGED <<ret, phase>>

TestUnchanged ==
    UNCHANGED <<args, evaluation_stack, data_stack, frames_stack, conditions_stack,
                instruction_counter, outputs, storage, error, instructions,
                transactions, method_name, check_cs, handler, database, define_stack,
                item_states, analyzers, type_index, overflow_checks, scopes>>

\* the unit tests of the contract, in the order the loop meets them
TestInit ==
    /\ instructions = TestedContract
    /\ VMIs(State_new(NoStorage, "test", <<>>))
    /\ \E n \in 0..MaxTests :
         \E address \in [1..n -> {0, 3}],
            should_panic \in [1..n -> BOOLEAN], is_ignored \in [1..n -> BOOLEAN] :
             args = [k \in 1..n |->
                       UnitTest(TestNames[k], address[k], should_panic[k],
                                is_ignored[k])]
    /\ unit_tests = args
    /\ exit_code = "Passed"
    /\ ret = Pending
    /\ phase = "testing"
    /\ check_cs = <<>>
    /\ handler = <<>>
    /\ database = 0
    /\ define_stack = <<>>
    /\ item_states = <<>>
    /\ analyzers = <<>>
    /\ type_index = <<>>
    /\ overflow_checks = FALSE
    /\ scopes = <<>>
    /\ history = [executed |-> <<>>]

TestNext ==
    /\ phase = "testing"
    /\ Len(unit_tests) > 0
    /\ unit_tests' = Tail(unit_tests)
    /\ TestTurn(Head(unit_tests))
    /\ TestUnchanged

\* Ok(exit_code), line 264
TestReturn ==
    /\ phase = "testing"
    /\ Len(unit_tests) = 0
    /\ ret' = [tag |-> "Ok", code |-> exit_code]
    /\ phase' = "returned"
    /\ UNCHANGED <<exit_code, unit_tests, history>>
    /\ TestUnchanged

SpecTest == TestInit /\ [][TestNext \/ TestReturn]_vars

\* a test whose result is not the one should_panic announces
Unexpected(unit_test) ==
    (TestResult(unit_test).tag = "Ok") = unit_test.should_panic
Tests == {args[k] : k \in 1..Len(args)}
NotIgnored == {unit_test.name : unit_test \in {u \in Tests : ~u.is_ignored}}
Failing == {unit_test.name : unit_test \in {u \in Tests : Unexpected(u)}}
Executed == {history.executed[k] : k \in 1..Len(history.executed)}

\* C28: when Facade::test returns, every unit test that is not ignored was
\* executed, and the exit code is Failed exactly when an executed test ended
\* with Ok under should_panic or with an error without it
C28_TestVerdict ==
    phase = "returned" =>
        /\ Executed = NotIgnored
        /\ ret.tag = "Ok"
        /\ ret.code = "Failed" <=> Executed \cap Failing # {}

\* without an ignored test the verdict is the announced one
VerdictWithoutIgnored ==
    (phase = "returned" /\ Cardinality(NotIgnored) = Len(args)) =>
        /\ Executed = NotIgnored
        /\ ret.code = "Failed" <=> Executed \cap Failing # {}

-----------------------------------------------------------------------------
(* zinc-compiler/src/semantic/element/type: the semantic types and their   *)
(* equality                                                                *)

MaxSize == 2

\* Option<Location> of a type: no location, or a place in the source
NoLocation == "None"
TypeLocations == {NoLocation, "1:1"}

\* Type::unit .. Type::string, and the integer types of a bitlength
Primitive(variant, location) == [variant |-> variant, location |-> location]
IntegerType(variant, location, bitlength) ==
    [variant |-> variant, location |-> location, bitlength |-> bitlength]
\* Type::range, Type::range_inclusive, Type::array, Type::tuple
RangeType(variant, location, type) ==
    [variant |-> variant, inner |-> [location |-> location, type |-> type]]
ArrayType(location, type, size) ==
    [variant |-> "Array",
     inner |-> [location |-> location, type |-> type, size |-> size]]
TupleType(location, types) ==
    [variant |-> "Tuple", inner |-> [location |-> location, types |-> types]]

\* Option of the formal generics and of the actual parameters of a structure
NoGenerics == [is_some |-> FALSE, value |-> <<>>]
Generics(value) == [is_some |-> TRUE, value |-> value]
NoParams == [is_some |-> FALSE, value |-> {}]

\* Structure::new
Structure_new(location, identifier, type_id, fields, generics, params, scope) ==
    [location |-> location, identifier |-> identifier, type_id |-> type_id,
     fields |-> fields, generics |-> generics, params |-> params, scope |-> scope]
\* the Enumeration, Function and Contract types, with their unique ids
Enumeration_new(location, identifier, unique_id, values) ==
    [location |-> location, identifier |-> identifier, unique_id |-> unique_id,
     values |-> values]
Function_new(location, identifier, unique_id) ==
    [location |-> location, identifier |-> identifier, unique_id |-> unique_id]
Contract_new(location, identifier, unique_id) ==
    [location |-> location, identifier |-> identifier, unique_id |-> unique_id]
Composite(variant, inner) == [variant |-> variant, inner |-> inner]

\* a structure equality that compares the declared shape
Structure_eq_by_shape(self, other) ==
    self.identifier = other.identifier /\ self.fields = other.fields

\* PartialEq for Structure
Structure_eq(self, other) == self.type_id = other.type_id

\* PartialEq for Enumeration
Enumeration_eq(self, other) == self.unique_id = other.unique_id

\* PartialEq for Contract
Contract_eq(self, other) == self.unique_id = other.unique_id

\* PartialEq for Type: the variants are compared pairwise, and two types of
\* another pair of variants, two functions among them, are not equal
RECURSIVE Type_eq(_, _)
Type_eq(self, other) ==
    LET both(variant) == self.variant = variant /\ other.variant = variant
    IN  CASE both("Unit") -> TRUE
          [] both("Boolean") -> TRUE
          [] both("IntegerUnsigned") -> self.bitlength = other.bitlength
          [] both("IntegerSigned") -> self.bitlength = other.bitlength
          [] both("Field") -> TRUE
          [] both("String") -> TRUE
          [] both("Range") -> Type_eq(self.inner.type, other.inner.type)
          [] both("RangeInclusive") -> Type_eq(self.inner.type, other.inner.type)
          [] both("Array") -> /\ Type_eq(self.inner.type, other.inner.type)
                              /\ self.inner.size = other.inner.size
          [] both("Tuple") ->
                /\ Len(self.inner.types) = Len(other.inner.types)
                /\ \A i \in 1..Len(self.inner.types) :
                       Type_eq(self.inner.types[i], other.inner.types[i])
          [] both("Structure") -> Structure_eq(self.inner, other.inner)
          [] both("Enumeration") -> Enumeration_eq(self.inner, other.inner)
          [] both("Contract") -> Contract_eq(self.inner, other.inner)
          [] OTHER -> FALSE

\* the types the equality is checked on: the primitive types, the types built
\* on them and the declared types, with and without a location
U8(location) == IntegerType("IntegerUnsigned", location, 8)
Primitives ==
    {Primitive(variant, NoLocation) : variant \in {"Boolean", "Field", "String"}}
    \cup {Primitive("Unit", location) : location \in TypeLocations}
    \cup {IntegerType("IntegerUnsigned", location, bitlength) :
            location \in TypeLocations, bitlength \in {8, 16}}
    \cup {IntegerType("IntegerSigned", NoLocation, 8)}
Elements == {U8(NoLocation), U8("1:1"), Primitive("Boolean", NoLocation)}
Built ==
    {RangeType("Range", NoLocation, type) : type \in Elements}
    \cup {RangeType("RangeInclusive", NoLocation, U8(NoLocation))}
    \cup {ArrayType(NoLocation, type, size) : type \in Elements, size \in 1..MaxSize}
    \cup {ArrayType("1:1", U8(NoLocation), 1)}
    \cup {TupleType(NoLocation, types) :
            types \in {<<>>, <<U8(NoLocation)>>, <<U8("1:1")>>,
                       <<U8(NoLocation), Primitive("Boolean", NoLocation)>>}}
DeclaredTypes ==
    {Composite("Structure", Structure_new(location, identifier, type_id, <<>>,
                                          NoGenerics, NoParams, 0)) :
        location \in TypeLocations, identifier \in {"A", "B"}, type_id \in {4, 5}}
    \cup {Composite("Enumeration", Enumeration_new(NoLocation, "E", unique_id, <<>>)) :
            unique_id \in {6, 7}}
    \cup {Composite("Function", Function_new(location, "f", 8)) :
            location \in TypeLocations}
    \cup {Composite("Contract", Contract_new(NoLocation, "C", unique_id)) :
            unique_id \in {9, 10}}

\* the type without its own location and the locations of the types in it
RECURSIVE Unlocated(_)
Unlocated(type) ==
    CASE type.variant \in {"Range", "RangeInclusive", "Array"} ->
            [type EXCEPT !.inner.location = NoLocation,
                         !.inner.type = Unlocated(@)]
      [] type.variant = "Tuple" ->
            [type EXCEPT !.inner.location = NoLocation,
                         !.inner.types = [i \in 1..Len(@) |-> Unlocated(@[i])]]
      [] type.variant \in {"Structure", "Enumeration", "Function", "Contract"} ->
            [type EXCEPT !.inner.location = NoLocation]
      [] OTHER -> [type EXCEPT !.location = NoLocation]

TypeEqInit ==
    /\ \E first \in Primitives \cup Built \cup DeclaredTypes,
          second \in Primitives \cup Built \cup DeclaredTypes,
          third \in Primitives \cup Built \cup DeclaredTypes :
            args = <<first, second, third>>
    /\ ret = Pending
    /\ phase = "new"
    /\ instructions = <<>>
    /\ VMIs(State_new(NoStorage, "main", <<>>))
    /\ check_cs = <<>>
    /\ handler = <<>>
    /\ database = 0
    /\ define_stack = <<>>
    /\ item_states = <<>>
    /\ analyzers = <<>>
    /\ type_index = <<>>
    /\ exit_code = "Passed"
    /\ unit_tests = <<>>
    /\ overflow_checks = FALSE
    /\ scopes = <<>>
    /\ history = [op |-> "none"]

\* the comparisons of the three types among themselves
TypeEq ==
    /\ phase = "new"
    /\ ret' = [i \in 1..3 |-> [j \in 1..3 |-> Type_eq(args[i], args[j])]]
    /\ history' = [op |-> "eq"]
    /\ phase' = "finished"
    /\ UNCHANGED <<args, evaluation_stack, data_stack, frames_stack, conditions_stack,
                   instruction_counter, outputs, storage, error, instructions,
                   transactions, method_name, check_cs, handler, database, define_stack,
                   item_states, analyzers, type_index, exit_code, unit_tests,
                   overflow_checks, scopes>>

SpecTypeEq == TypeEqInit /\ [][TypeEq]_vars

Compared == phase = "finished" /\ history.op = "eq"

\* C30: the equality of types is reflexive, symmetric and transitive, and two
\* types have the equality of the same types without their locations
C30_TypeEqIsEquivalence ==
    Compared =>
        /\ \A i \in 1..3 : ret[i][i]
        /\ \A i, j \in 1..3 : ret[i][j] = ret[j][i]
        /\ (ret[1][2] /\ ret[2][3]) => ret[1][3]
        /\ \A i, j \in 1..3 :
              ret[i][j] = Type_eq(Unlocated(args[i]), Unlocated(args[j]))

\* the same on the types that are not functions
EquivalenceButOnFunctions ==
    (Compared /\ \A i \in 1..3 : args[i].variant # "Function") =>
        /\ \A i \in 1..3 : ret[i][i]
        /\ \A i, j \in 1..3 : ret[i][j] = ret[j][i]
        /\ (ret[1][2] /\ ret[2][3]) => ret[1][3]
        /\ \A i, j \in 1..3 :
              ret[i][j] = Type_eq(Unlocated(args[i]), Unlocated(args[j]))

-----------------------------------------------------------------------------
(* zinc-compiler/src/semantic/analyzer/statement/struct.rs and             *)
(* element/type/structure: the struct declarations of the compilations of  *)
(* a process, the type ids they take from the process-wide index, and the  *)
(* generics of a structure                                                 *)

MaxStructs == 3

\* the compilations that run in the process, each in a thread of its own
Compilations == {1, 2}

\* IntrinsicTypeId
StdCryptoEccPoint == 0
StdCryptoSchnorrSignature == 1
ZkSyncTransaction == 2
StdCollectionsMTreeMap == 3

\* the index of the structure types when the first compilation starts: the
\* intrinsic structures are registered under their ids
INDEX_new ==
    [id \in {StdCryptoEccPoint, StdCryptoSchnorrSignature, ZkSyncTransaction,
             StdCollectionsMTreeMap} |->
        CASE id = StdCryptoEccPoint -> "Point"
          [] id = StdCryptoSchnorrSignature -> "Signature"
          [] id = ZkSyncTransaction -> "Transaction"
          [] OTHER -> "MTreeMap"]

\* HashMap::insert on an index
index_insert(index, id, title) ==
    [i \in DOMAIN index \cup {id} |-> IF i = id THEN title ELSE index[i]]
\* HashMap::len
index_len(index) == Cardinality(DOMAIN index)

\* Structure::set_generics: the structure it leaves and what it returns
set_generics(self, location, generics) ==
    CASE self.generics.is_some /\ generics.is_some ->
            IF Len(self.generics.value) # Len(generics.value)
            THEN [self |-> self,
                  result |-> [tag |-> "InvalidGenericsNumber", location |-> location,
                              type_identifier |-> self.identifier,
                              expected |-> Len(self.generics.value),
                              found |-> Len(generics.value)]]
            ELSE LET formal == self.generics.value
                     params == {<<formal[i], generics.value[i]>> :
                                  i \in {k \in 1..Len(formal) :
                                           \A later \in k + 1..Len(formal) :
                                               formal[later] # formal[k]}}
                 IN  [self |-> [self EXCEPT !.params =
                                    [is_some |-> TRUE, value |-> params]],
                      result |-> [tag |-> "Ok"]]
      [] self.generics.is_some /\ ~generics.is_some ->
            [self |-> self,
             result |-> [tag |-> "ExpectedGenerics", location |-> location,
                         type_identifier |-> self.identifier,
                         expected |-> Len(self.generics.value)]]
      [] ~self.generics.is_some /\ generics.is_some ->
            [self |-> self,
             result |-> [tag |-> "UnexpectedGenerics", location |-> location,
                         type_identifier |-> self.identifier]]
      [] OTHER -> [self |-> self, result |-> [tag |-> "Ok"]]

\* a struct or enum statement: the scope it is written in, its identifier, its
\* fields and its formal generics
TypeStatement(kind, scope, identifier, fields, generics) ==
    [kind |-> kind, scope |-> scope, identifier |-> identifier, fields |-> fields,
     generics |-> generics]
FieldX == <<"x", U8(NoLocation)>>
StructStatements ==
    {TypeStatement("struct", 1, "A", <<>>, NoGenerics),
     TypeStatement("struct", 1, "A", <<FieldX, FieldX>>, NoGenerics)}
    \cup {TypeStatement("struct", scope, "B", <<FieldX>>, Generics(<<"T">>)) :
            scope \in {1, 2}}
EnumStatements == {TypeStatement("enum", scope, "E", <<>>, NoGenerics) : scope \in {1, 2}}
ActualGenerics ==
    {NoGenerics, Generics(<<>>), Generics(<<U8(NoLocation)>>),
     Generics(<<U8(NoLocation), Primitive("Boolean", NoLocation)>>)}

\* the fields loop of Analyzer::analyze, lines 24-43
DuplicateField(statement) ==
    \E i, j \in 1..Len(statement.fields) :
        i < j /\ statement.fields[i][1] = statement.fields[j][1]

\* Scope::declare_type in the scope of the statement
TypeRedeclared(compilation, statement) ==
    \E k \in 1..Len(compilation.declared) :
        /\ compilation.declared[k].scope = statement.scope
        /\ compilation.declared[k].identifier = statement.identifier
declare(compilation, statement, type) ==
    IF TypeRedeclared(compilation, statement)
    THEN [compilation EXCEPT !.result = "ItemRedeclared"]
    ELSE [compilation EXCEPT
             !.declared = Append(@, [scope |-> statement.scope,
                                     identifier |-> statement.identifier,
                                     type |-> type]),
             !.result = "Ok"]

Analysed ==
    LET one == CHOOSE c \in Compilations : TRUE
        other == CHOOSE c \in Compilations : c # one
    IN  analyzers[one].analysed + analyzers[other].analysed

TypesUnchanged ==
    UNCHANGED <<args, ret, evaluation_stack, data_stack, frames_stack,
                conditions_stack, instruction_counter, outputs, storage, error,
                instructions, transactions, method_name, check_cs, handler, database,
                define_stack, item_states, exit_code,
                unit_tests, overflow_checks, scopes>>

TypesInit ==
    /\ type_index = [INDEX |-> INDEX_new, SOFT |-> <<>>]
    /\ analyzers = [c \in Compilations |->
                      [pc |-> "idle", statement |-> TypeStatement("none", 0, "", <<>>,
                                                                  NoGenerics),
                       unique_id |-> 0, declared |-> <<>>, analysed |-> 0,
                       result |-> "none"]]
    /\ args = <<>>
    /\ ret = Pending
    /\ phase = "analysis"
    /\ instructions = <<>>
    /\ VMIs(State_new(NoStorage, "main", <<>>))
    /\ check_cs = <<>>
    /\ handler = <<>>
    /\ database = 0
    /\ define_stack = <<>>
    /\ item_states = <<>>
    /\ exit_code = "Passed"
    /\ unit_tests = <<>>
    /\ overflow_checks = FALSE
    /\ scopes = <<>>
    /\ history = [op |-> "none"]

\* Analyzer::analyze, lines 24-45: the fields are checked for a duplicate, and
\* the length of the index is read under the read lock, which is released
AnalyzeStruct(c, statement) ==
    /\ phase = "analysis"
    /\ analyzers[c].pc = "idle"
    /\ Analysed < MaxStructs
    /\ LET compilation == [analyzers[c] EXCEPT !.analysed = @ + 1,
                                               !.statement = statement]
       IN  analyzers' = [analyzers EXCEPT ![c] =
               IF DuplicateField(statement)
               THEN [compilation EXCEPT !.result = "DuplicateField"]
               ELSE [compilation EXCEPT !.pc = "read",
                                        !.unique_id = index_len(type_index.INDEX)]]
    /\ history' = [op |-> "analyze"]
    /\ UNCHANGED <<type_index, phase>>
    /\ TypesUnchanged

\* Analyzer::analyze, lines 46-58: the structure type is built on the id that
\* was read, the id is inserted under the write lock, and the type is declared
RegisterStruct(c) ==
    /\ phase = "analysis"
    /\ analyzers[c].pc = "read"
    /\ LET statement == analyzers[c].statement
           unique_id == analyzers[c].unique_id
           type == Composite("Structure",
                             Structure_new(NoLocation, statement.identifier, unique_id,
                                           statement.fields, statement.generics,
                                           NoParams, 0))
       IN  /\ type_index' = [type_index EXCEPT !.INDEX =
                                index_insert(@, unique_id, statement.identifier)]
           /\ analyzers' = [analyzers EXCEPT ![c] =
                               declare([@ EXCEPT !.pc = "idle"], statement, type)]
    /\ history' = [op |-> "register"]
    /\ UNCHANGED phase
    /\ TypesUnchanged

\* Enumeration::new, lines 71-104, and the declaration of the enumeration: the
\* unique id is the next one of the soft index
AnalyzeEnum(c, statement) ==
    /\ phase = "analysis"
    /\ analyzers[c].pc = "idle"
    /\ Analysed < MaxStructs
    /\ LET unique_id == index_len(type_index.SOFT)
           type == Composite("Enumeration",
                             Enumeration_new(NoLocation, statement.identifier, unique_id,
                                             <<>>))
       IN  /\ type_index' = [type_index EXCEPT !.SOFT =
                                index_insert(@, unique_id, statement.identifier)]
           /\ analyzers' = [analyzers EXCEPT ![c] =
                               declare([@ EXCEPT !.analysed = @ + 1,
                                                 !.statement = statement],
                                       statement, type)]
    /\ history' = [op |-> "enumeration"]
    /\ UNCHANGED phase
    /\ TypesUnchanged

\* a structure value is initialized: set_generics on a clone of the declared type
SetGenerics(c, k, generics) ==
    /\ phase = "analysis"
    /\ analyzers[c].pc = "idle"
    /\ k \in 1..Len(analyzers[c].declared)
    /\ analyzers[c].declared[k].type.variant = "Structure"
    /\ LET before == analyzers[c].declared[k].type.inner
           set == set_generics(before, "1:1", generics)
       IN  history' = [op |-> "set_generics", compilation |-> c, before |-> before,
                       after |-> set.self, result |-> set.result]
    /\ phase' = "finished"
    /\ UNCHANGED <<analyzers, type_index>>
    /\ TypesUnchanged

TypesNext ==
    \E c \in Compilations :
        \/ \E statement \in StructStatements : AnalyzeStruct(c, statement)
        \/ RegisterStruct(c)
        \/ \E statement \in EnumStatements : AnalyzeEnum(c, statement)
        \/ \E k \in 1..MaxStructs, generics \in ActualGenerics :
              SetGenerics(c, k, generics)

SpecTypes == TypesInit /\ [][TypesNext]_vars

\* the types a compilation declared, by variant
DeclaredBy(c, variant) ==
    {k \in 1..Len(analyzers[c].declared) :
        analyzers[c].declared[k].type.variant = variant}
TypeOf(c, k) == analyzers[c].declared[k].type
\* two declarations of one shape: the same identifier and the same fields
SameShape(c, i, j) ==
    /\ TypeOf(c, i).inner.identifier = TypeOf(c, j).inner.identifier
    /\ TypeOf(c, i).variant = "Structure" =>
          TypeOf(c, i).inner.fields = TypeOf(c, j).inner.fields
SetGenericsDone == phase = "finished" /\ history.op = "set_generics"

\* C22: two structures are equal exactly when their type ids are, and two
\* enumerations when their unique ids are, whatever their identifiers, fields
\* and generics; two declarations of a compilation are not equal, those of one
\* shape included; and a structure after set_generics is equal to the
\* structures it was equal to before
C22_TypesEqualByIdOnly ==
    /\ \A c, d \in Compilations :
          /\ \A i \in DeclaredBy(c, "Structure"), j \in DeclaredBy(d, "Structure") :
                Type_eq(TypeOf(c, i), TypeOf(d, j))
                    <=> TypeOf(c, i).inner.type_id = TypeOf(d, j).inner.type_id
          /\ \A i \in DeclaredBy(c, "Enumeration"), j \in DeclaredBy(d, "Enumeration") :
                Type_eq(TypeOf(c, i), TypeOf(d, j))
                    <=> TypeOf(c, i).inner.unique_id = TypeOf(d, j).inner.unique_id
    /\ \A c \in Compilations :
          \A i, j \in 1..Len(analyzers[c].declared) :
              i # j => ~Type_eq(TypeOf(c, i), TypeOf(c, j))
    /\ SetGenericsDone =>
          /\ Structure_eq(history.after, history.before)
          /\ \A c \in Compilations : \A i \in DeclaredBy(c, "Structure") :
                Structure_eq(history.after, TypeOf(c, i).inner)
                    = Structure_eq(history.before, TypeOf(c, i).inner)

\* a compilation declared two structures of one shape, and set_generics has set
\* the parameters of one of them
C22_Witness ==
    /\ SetGenericsDone
    /\ history.result.tag = "Ok"
    /\ history.after.params.is_some
    /\ \E i, j \in DeclaredBy(history.compilation, "Structure") :
          i # j /\ SameShape(history.compilation, i, j)

\* the structure declarations of the process: the compilation and the place
StructDeclarations ==
    {<<c, k>> : c \in Compilations, k \in 1..MaxStructs} \cap
    UNION {{<<c, k>> : k \in DeclaredBy(c, "Structure")} : c \in Compilations}
type_id_of(declaration) == TypeOf(declaration[1], declaration[2]).inner.type_id

\* C23: no two struct declarations of the process have the same type id,
\* whether one compilation or two made them, and no declared structure has one
\* of the intrinsic ids 0..3
C23_TypeIdsUnique ==
    /\ \A first, second \in StructDeclarations :
          first # second => type_id_of(first) # type_id_of(second)
    /\ \A declaration \in StructDeclarations :
          type_id_of(declaration) > StdCollectionsMTreeMap

\* no declared structure has an intrinsic id, and the declarations of one
\* compilation have ids of their own
UniqueInCompilation ==
    /\ \A first, second \in StructDeclarations :
          (first # second /\ first[1] = second[1])
              => type_id_of(first) # type_id_of(second)
    /\ \A declaration \in StructDeclarations :
          type_id_of(declaration) > StdCollectionsMTreeMap

-----------------------------------------------------------------------------
(* zinc-compiler/src/semantic/analyzer/statement/fn.rs: the analysis of a  *)
(* function statement                                                      *)

MaxBindings == 2

FUNCTION_MAIN_IDENTIFIER == "main"

\* Display for Type
Type_to_string(type) ==
    CASE type.variant = "Unit" -> "()"
      [] type.variant = "Boolean" -> "bool"
      [] type.variant = "IntegerUnsigned" -> "u" \o ToString(type.bitlength)
      [] type.variant = "IntegerSigned" -> "i" \o ToString(type.bitlength)
      [] type.variant = "Field" -> "field"
      [] type.variant = "String" -> "str"
      [] type.variant = "Enumeration" -> "enum " \o type.inner.identifier
      [] type.variant = "Function" -> "fn " \o type.inner.identifier
      [] OTHER -> type.inner.identifier

\* a comparison of the variants of the two types alone
return_type_differs_by_variant(expected_type, result_type) ==
    expected_type.variant # result_type.variant

\* expected_type != result_type, line 187
return_type_differs(expected_type, result_type) ==
    ~Type_eq(expected_type, result_type)

\* the second loop on the bindings, lines 127-159: the arguments are declared
\* as variables of the scope of the body
RECURSIVE declare_bindings(_, _, _)
declare_bindings(sc, scope, argument_bindings) ==
    IF Len(argument_bindings) = 0 THEN Declared(sc, ScopeOk)
    ELSE LET binding == Head(argument_bindings)
             declared == IF binding.variant = "Wildcard" THEN Declared(sc, ScopeOk)
                         ELSE define_variable(sc, scope, binding.identifier)
         IN  IF declared.result.tag = "Ok"
             THEN declare_bindings(declared.scopes, scope, Tail(argument_bindings))
             ELSE declared

\* the first loop on the bindings, lines 80-105: the place of a `self` that
\* is not the first argument, 0 when there is none
SelfNotFirst(argument_bindings) ==
    LET places == {i \in 2..Len(argument_bindings) :
                     argument_bindings[i].variant = "SelfAlias"}
    IN  IF places = {} THEN 0 ELSE CHOOSE i \in places : \A j \in places : i <= j
Arguments(argument_bindings) ==
    LET named == SelectSeq(argument_bindings, LAMBDA b : b.variant # "Wildcard")
    IN  [i \in 1..Len(named) |-> named[i].identifier]

\* Analyzer::runtime: the scopes and the soft index it leaves, and its Result
runtime(sc, index, scope, statement, context) ==
    LET expected_type == IF statement.return_type.is_some
                         THEN statement.return_type.value
                         ELSE Primitive("Unit", NoLocation)
        unique_id == index_len(index)
        next == index_insert(index, unique_id, statement.identifier)
        function == define_type(sc, scope, statement.identifier, NoScope, FALSE)
        body_scope == Len(function.scopes) + 1
        bound == declare_bindings(new_child(function.scopes, scope), body_scope,
                                  statement.argument_bindings)
        result_type == statement.body.type
        Returns(scs, idx, result) == [scopes |-> scs, index |-> idx, result |-> result]
    IN  IF SelfNotFirst(statement.argument_bindings) # 0
        THEN Returns(sc, index,
                  [tag |-> "Err", error |-> "FunctionMethodSelfNotFirst",
                   function |-> statement.identifier,
                   position |-> SelfNotFirst(statement.argument_bindings)])
        ELSE IF function.result.tag # "Ok" THEN Returns(sc, next, function.result)
        ELSE IF bound.result.tag # "Ok" THEN Returns(bound.scopes, next, bound.result)
        ELSE IF statement.body.tag # "Ok"
        THEN Returns(bound.scopes, next, [tag |-> "Err", error |-> "Body"])
        ELSE IF return_type_differs(expected_type, result_type)
        THEN Returns(bound.scopes, next,
                  [tag |-> "Err", error |-> "ReturnType",
                   function |-> statement.identifier,
                   expected |-> Type_to_string(expected_type),
                   found |-> Type_to_string(result_type)])
        ELSE Returns(bound.scopes, next,
                  [tag |-> "Ok",
                   statement |->
                      [identifier |-> statement.identifier,
                       arguments |-> Arguments(statement.argument_bindings),
                       return_type |-> expected_type,
                       unique_id |-> unique_id,
                       is_contract_entry |-> context = "Contract" /\ statement.is_public,
                       is_main |-> statement.identifier = FUNCTION_MAIN_IDENTIFIER]])

\* the function statements analysed: the types written and found, the
\* bindings and the result of the analysis of the body
FnTypes ==
    {Primitive("Unit", NoLocation), U8(NoLocation), U8("1:1"),
     IntegerType("IntegerUnsigned", NoLocation, 16),
     Composite("Function", Function_new(NoLocation, "a", 0))}
    \cup {Composite("Structure", Structure_new(NoLocation, "A", type_id, <<>>,
                                               NoGenerics, NoParams, 0)) :
            type_id \in {4, 5}}
Bindings ==
    {[variant |-> "Wildcard", identifier |-> "_"],
     [variant |-> "SelfAlias", identifier |-> SelfLowercase]}
    \cup {[variant |-> "Binding", identifier |-> name] : name \in {"a", "b"}}
ReturnTypes ==
    {[is_some |-> FALSE, value |-> Primitive("Unit", NoLocation)]}
    \cup {[is_some |-> TRUE, value |-> type] : type \in FnTypes}
Bodies ==
    {[tag |-> "Err", type |-> Primitive("Unit", NoLocation)]}
    \cup {[tag |-> "Ok", type |-> type] : type \in FnTypes}
ModuleScope == 2

FnInit ==
    /\ \E n \in 0..MaxBindings :
         \E argument_bindings \in [1..n -> Bindings], return_type \in ReturnTypes,
            body \in Bodies, is_public \in BOOLEAN, identifier \in {"a", "b"} :
             args = [identifier |-> identifier, argument_bindings |-> argument_bindings,
                     return_type |-> return_type, body |-> body,
                     is_public |-> is_public,
                     context |-> IF is_public THEN "Contract" ELSE "Module"]
    /\ scopes = define_type(<<Scope_new_intrinsic, Scope_new_global>>, ModuleScope,
                            "b", NoScope, FALSE).scopes
    /\ type_index = [INDEX |-> INDEX_new, SOFT |-> <<>>]
    /\ analyzers = <<>>
    /\ ret = Pending
    /\ phase = "new"
    /\ instructions = <<>>
    /\ VMIs(State_new(NoStorage, "main", <<>>))
    /\ check_cs = <<>>
    /\ handler = <<>>
    /\ database = 0
    /\ define_stack = <<>>
    /\ item_states = <<>>
    /\ exit_code = "Passed"
    /\ unit_tests = <<>>
    /\ overflow_checks = FALSE
    /\ history = [op |-> "none"]

\* Analyzer::runtime on the statement, in the scope of the module
FnRuntime ==
    /\ phase = "new"
    /\ LET left == runtime(scopes, type_index.SOFT, ModuleScope, args, args.context)
       IN  /\ ret' = left.result
           /\ scopes' = left.scopes
           /\ type_index' = [type_index EXCEPT !.SOFT = left.index]
    /\ history' = [op |-> "runtime"]
    /\ phase' = "finished"
    /\ UNCHANGED <<args, evaluation_stack, data_stack, frames_stack, conditions_stack,
                   instruction_counter, outputs, storage, error, instructions,
                   transactions, method_name, check_cs, handler, database, define_stack,
                   item_states, analyzers, exit_code,
                   unit_tests, overflow_checks>>

SpecFn == FnInit /\ [][FnRuntime]_vars

FnAnalysed == phase = "finished" /\ history.op = "runtime"
\* the declared return type, unit when none is written
ExpectedType ==
    IF args.return_type.is_some THEN args.return_type.value
    ELSE Primitive("Unit", NoLocation)
\* the two types are the same type, whatever their locations
SameType(first, second) == Unlocated(first) = Unlocated(second)
\* the analysis came to the comparison of the two types
BodyAnalysed ==
    /\ FnAnalysed
    /\ args.body.tag = "Ok"
    /\ ~(ret.tag = "Err" /\ ret.error \in {"FunctionMethodSelfNotFirst",
                                          "ItemRedeclared"})

\* C24: the analysis of a function returns Ok only when the type of the
\* result of the body is the declared return type (unit when none is
\* written); when the body was analysed and the types differ it returns the
\* ReturnType error with the expected and the found type, and an error
\* carries no generator statement
C24_ReturnTypeChecked ==
    FnAnalysed =>
        /\ ret.tag = "Ok" =>
              /\ SameType(args.body.type, ExpectedType)
              /\ ret.statement.return_type = ExpectedType
        /\ (BodyAnalysed /\ ~SameType(args.body.type, ExpectedType)) =>
              /\ ret.tag = "Err" /\ ret.error = "ReturnType"
              /\ ret.expected = Type_to_string(ExpectedType)
              /\ ret.found = Type_to_string(args.body.type)
        /\ ret.tag = "Err" => "statement" \notin DOMAIN ret

\* a function that declares u8 and whose body has the type u16
C24_Witness ==
    /\ FnAnalysed
    /\ args.return_type.is_some
    /\ args.return_type.value = U8("1:1")
    /\ args.body.tag = "Ok"
    /\ args.body.type = IntegerType("IntegerUnsigned", NoLocation, 16)
    /\ ret.tag = "Err" /\ ret.error = "ReturnType"
    /\ ret.expected = "u8" /\ ret.found = "u16"

-----------------------------------------------------------------------------
(* zinc-compiler/src/semantic/scope: the lazy definition of the items of a *)
(* module. Scope::define defines the items in the order of declaration; the *)
(* statement of an item resolves the paths it names, and resolve_path      *)
(* defines the item it resolves before the analyzer of the path uses it    *)

MaxDependencies == 1

\* the items the module declares, in the order of their item ids, its `self`
\* alias first; "z" is a name the module does not declare
LazyItems == {"a", "b"}
DefineOrder == <<SelfLowercase, "a", "b">>
Undeclared == "z"
\* Keyword::is_alias
is_alias(name) == name = SelfLowercase

DefineOk == [tag |-> "Ok"]
DefineErr(kind) == [tag |-> "Err", error |-> kind]
DefineFrame(op, item, index, stage) ==
    [op |-> op, item |-> item, index |-> index, stage |-> stage]

\* a Scope::define that goes on to the next item after an error
scope_define_ignores_errors(called, returned, index) ==
    IF index > Len(DefineOrder) THEN [do |-> "return", result |-> DefineOk]
    ELSE IF is_alias(DefineOrder[index]) THEN [do |-> "continue", result |-> DefineOk]
    ELSE [do |-> "define", result |-> DefineOk]

\* Scope::define: what the loop does at the item `index`, `returned` being
\* the result of the item.define() it called last (`called` tells that there
\* was one): `?` returns its error, an alias is skipped
scope_define_next(called, returned, index) ==
    IF called /\ returned.tag = "Err" THEN [do |-> "return", result |-> returned]
    ELSE IF index > Len(DefineOrder) THEN [do |-> "return", result |-> DefineOk]
    ELSE IF is_alias(DefineOrder[index]) THEN [do |-> "continue", result |-> DefineOk]
    ELSE [do |-> "define", result |-> DefineOk]

TopDefine == define_stack[Len(define_stack)]
\* the open calls without the last one, whose result `result` is in ret
DefineReturns(result) ==
    /\ define_stack' = SubSeq(define_stack, 1, Len(define_stack) - 1)
    /\ ret' = result
\* the last open call calls Item::define of `item` and waits in `stage`
DefineCalls(item, stage) ==
    define_stack' =
        Append([define_stack EXCEPT ![Len(define_stack)].stage = stage],
               DefineFrame("Item::define", item, 1, "enter"))
DefineMoves(index, stage) ==
    define_stack' = [define_stack EXCEPT ![Len(define_stack)].index = index,
                                         ![Len(define_stack)].stage = stage]

LazyUnchanged ==
    UNCHANGED <<args, evaluation_stack, data_stack, frames_stack, conditions_stack,
                instruction_counter, outputs, storage, error, instructions,
                transactions, method_name, check_cs, handler, database, analyzers, type_index,
                exit_code, unit_tests, overflow_checks, scopes>>

LazyInit ==
    /\ \E deps \in [LazyItems -> UNION {[1..n -> LazyItems \cup {Undeclared}] :
                                          n \in 0..MaxDependencies}],
          failing \in LazyItems \cup {"none"} :
            args = [deps |-> deps, failing |-> failing]
    /\ item_states = [name \in LazyItems |->
                        [state |-> "Declared", result |-> DefineOk]]
    /\ define_stack = <<DefineFrame("Scope::define", "", 1, "run")>>
    /\ ret = Pending
    /\ phase = "defining"
    /\ history = [op |-> "none", evaluated |-> [name \in LazyItems |-> 0]]
    /\ instructions = <<>>
    /\ VMIs(State_new(NoStorage, "main", <<>>))
    /\ check_cs = <<>>
    /\ handler = <<>>
    /\ database = 0
    /\ analyzers = <<>>
    /\ type_index = <<>>
    /\ exit_code = "Passed"
    /\ unit_tests = <<>>
    /\ overflow_checks = FALSE
    /\ scopes = <<>>

InScopeDefine == phase = "defining" /\ TopDefine.op = "Scope::define"
ScopeDefineDoes ==
    scope_define_next(TopDefine.stage = "called", ret, TopDefine.index)
InItemDefine(stage) ==
    /\ phase = "defining"
    /\ TopDefine.op = "Item::define"
    /\ TopDefine.stage = stage

\* Scope::define, line 141: item.borrow().define()
ScopeDefineCall ==
    /\ InScopeDefine
    /\ ScopeDefineDoes.do = "define"
    /\ define_stack' =
          Append([define_stack EXCEPT ![Len(define_stack)].stage = "called",
                                      ![Len(define_stack)].index = @ + 1],
                 DefineFrame("Item::define", DefineOrder[TopDefine.index], 1, "enter"))
    /\ history' = [history EXCEPT !.op = "define"]
    /\ UNCHANGED <<ret, phase, item_states>>
    /\ LazyUnchanged

\* Scope::define, lines 137-139: an alias is skipped
ScopeDefineSkip ==
    /\ InScopeDefine
    /\ ScopeDefineDoes.do = "continue"
    /\ DefineMoves(TopDefine.index + 1, "run")
    /\ history' = [history EXCEPT !.op = "alias"]
    /\ UNCHANGED <<ret, phase, item_states>>
    /\ LazyUnchanged

\* Scope::define returns: the error of an item, or Ok(()) after the last item
ScopeDefineReturn ==
    /\ InScopeDefine
    /\ ScopeDefineDoes.do = "return"
    /\ DefineReturns(ScopeDefineDoes.result)
    /\ phase' = "finished"
    /\ history' = [history EXCEPT !.op = "return"]
    /\ UNCHANGED item_states
    /\ LazyUnchanged

\* Item::define of a declared item: the item is being defined from now on,
\* and its statement is evaluated
ItemBegin ==
    /\ InItemDefine("enter")
    /\ item_states[TopDefine.item].state = "Declared"
    /\ item_states' = [item_states EXCEPT ![TopDefine.item].state = "BeingDefined"]
    /\ DefineMoves(1, "run")
    /\ history' = [history EXCEPT !.op = "begin",
                                  !.evaluated[TopDefine.item] = @ + 1]
    /\ UNCHANGED <<ret, phase>>
    /\ LazyUnchanged

\* Item::define of an item that was defined, or whose definition failed: the
\* stored result is returned
ItemReuse ==
    /\ InItemDefine("enter")
    /\ item_states[TopDefine.item].state \in {"Defined", "Error"}
    /\ DefineReturns(item_states[TopDefine.item].result)
    /\ history' = [history EXCEPT !.op = "reuse"]
    /\ UNCHANGED <<phase, item_states>>
    /\ LazyUnchanged

\* Item::define of an item that is being defined: the reference is a loop
ItemLoop ==
    /\ InItemDefine("enter")
    /\ item_states[TopDefine.item].state = "BeingDefined"
    /\ DefineReturns(DefineErr("ReferenceLoop"))
    /\ history' = [history EXCEPT !.op = "loop"]
    /\ UNCHANGED <<phase, item_states>>
    /\ LazyUnchanged

\* the statement names a path: Scope::resolve_path, lines 500-503, resolves
\* its identifier and defines the item
ItemResolvePath ==
    /\ InItemDefine("run")
    /\ TopDefine.index <= Len(args.deps[TopDefine.item])
    /\ LET identifier == args.deps[TopDefine.item][TopDefine.index]
       IN  IF identifier \in LazyItems
           THEN /\ DefineCalls(identifier, "resolved")
                /\ UNCHANGED ret
           ELSE /\ DefineMoves(TopDefine.index, "resolved")
                /\ ret' = DefineErr("ItemUndeclared")
    /\ history' = [history EXCEPT !.op = "resolve_path"]
    /\ UNCHANGED <<phase, item_states>>
    /\ LazyUnchanged

\* the analyzer of the path defines the item resolve_path returned, path.rs
\* lines 64-65 and 86-87
ItemUse ==
    /\ InItemDefine("resolved")
    /\ ret.tag = "Ok"
    /\ DefineCalls(args.deps[TopDefine.item][TopDefine.index], "used")
    /\ history' = [history EXCEPT !.op = "use"]
    /\ UNCHANGED <<ret, phase, item_states>>
    /\ LazyUnchanged

\* the statement goes on after the path
ItemAdvance ==
    /\ InItemDefine("used")
    /\ ret.tag = "Ok"
    /\ DefineMoves(TopDefine.index + 1, "run")
    /\ history' = [history EXCEPT !.op = "advance"]
    /\ UNCHANGED <<ret, phase, item_states>>
    /\ LazyUnchanged

\* resolve_path or the definition of the item it found returned an error: the
\* item is left with the error, which Item::define returns
ItemFail ==
    /\ \/ InItemDefine("resolved")
       \/ InItemDefine("used")
    /\ ret.tag = "Err"
    /\ item_states' = [item_states EXCEPT ![TopDefine.item] =
                          [state |-> "Error", result |-> ret]]
    /\ DefineReturns(ret)
    /\ history' = [history EXCEPT !.op = "fail"]
    /\ UNCHANGED phase
    /\ LazyUnchanged

\* the statement is evaluated to its end: the item is defined, or left with
\* the error of the statement
ItemComplete ==
    /\ InItemDefine("run")
    /\ TopDefine.index > Len(args.deps[TopDefine.item])
    /\ LET result == IF args.failing = TopDefine.item THEN DefineErr("Statement")
                     ELSE DefineOk
       IN  /\ item_states' = [item_states EXCEPT ![TopDefine.item] =
                                 [state |-> IF result.tag = "Ok" THEN "Defined"
                                            ELSE "Error",
                                  result |-> result]]
           /\ DefineReturns(result)
    /\ history' = [history EXCEPT !.op = "complete"]
    /\ UNCHANGED phase
    /\ LazyUnchanged

LazyNext ==
    \/ ScopeDefineCall \/ ScopeDefineSkip \/ ScopeDefineReturn
    \/ ItemBegin \/ ItemReuse \/ ItemLoop
    \/ ItemResolvePath \/ ItemUse \/ ItemAdvance \/ ItemFail \/ ItemComplete

\* the calls are run one after the other until Scope::define returns
SpecLazy == LazyInit /\ [][LazyNext]_vars /\ WF_vars(LazyNext)

\* the items the statement of `name` names, and those they lead to
DependsOn(name) == {args.deps[name][i] : i \in 1..Len(args.deps[name])} \cap LazyItems
RECURSIVE LeadsTo(_, _)
LeadsTo(names, n) ==
    IF n = 0 THEN names
    ELSE LeadsTo(names \cup UNION {DependsOn(name) : name \in names}, n - 1)
DependsOnItself(name) == name \in LeadsTo(DependsOn(name), Cardinality(LazyItems))

\* the moves of the state of an item
OneShot ==
    \A name \in LazyItems :
        /\ item_states'[name].state # item_states[name].state =>
              \/ /\ item_states[name].state = "Declared"
                 /\ item_states'[name].state = "BeingDefined"
              \/ /\ item_states[name].state = "BeingDefined"
                 /\ item_states'[name].state \in {"Defined", "Error"}
        /\ item_states[name].state \in {"Defined", "Error"} =>
              item_states'[name] = item_states[name]
        /\ history'.evaluated[name] <= 1
LazyFinished == phase = "finished"

\* C21: the state of an item moves from Declared to BeingDefined and from
\* there to Defined or Error, its statement is evaluated once at most and the
\* stored result does not change; Scope::define returns in the end; and it
\* returns an error when an item it resolved depends on itself
C21_LazyDefinitionOneShot ==
    /\ [][OneShot]_vars
    /\ <>LazyFinished
    /\ [](LazyFinished =>
            \A name \in LazyItems :
                (DependsOnItself(name) /\ item_states[name].state # "Declared")
                    => ret.tag = "Err")

\* a names b and b names a: Scope::define has returned the error of the loop,
\* each statement evaluated once
C21_Witness ==
    /\ LazyFinished
    /\ args.deps["a"] = <<"b">> /\ args.deps["b"] = <<"a">>
    /\ ret = DefineErr("ReferenceLoop")
    /\ item_states["a"].state = "Error" /\ item_states["b"].state = "Error"
    /\ history.evaluated["a"] = 1 /\ history.evaluated["b"] = 1

-----------------------------------------------------------------------------
(* zandbox/src/controller/contract/call/mod.rs: the handler of the call of *)
(* a contract method. The database, the wallet, the virtual machine and    *)
(* zkSync answer each request with a result or an error                    *)

MaxBatch == 1

\* the contract fields in the database before the call, and those the
\* virtual machine can return
StoredBefore == 0
Outcomes == {"Ok", "Err"}

CallErr(kind) == [tag |-> "Err", error |-> kind]
CallOk == [tag |-> "Ok"]

\* the handler returns `result`
Responds(result) ==
    /\ ret' = result
    /\ phase' = "responded"

\* the handler goes on to the step `next`; `step` is the number of the step
\* of the documented sequence that was run, 0 for a step that is not in it
Proceeds(next, step) ==
    /\ phase' = next
    /\ history' = [history EXCEPT !.steps = IF step = 0 THEN @ ELSE Append(@, step)]
    /\ UNCHANGED ret

CallUnchanged ==
    UNCHANGED <<args, evaluation_stack, data_stack, frames_stack, conditions_stack,
                instruction_counter, outputs, storage, error, instructions,
                transactions, method_name, check_cs, analyzers, type_index,
                item_states, define_stack, exit_code, unit_tests, overflow_checks,
                scopes>>

HandleInit ==
    /\ \E contract \in {"found", "locked", "none"},
          method \in {"mutable", "immutable", "none"},
          sent \in 0..MaxBatch :
            args = [contract |-> contract, method |-> method, transaction |-> sent]
    /\ database = StoredBefore
    /\ handler = [storage |-> StoredBefore, output |-> StoredBefore, transfers |-> 0,
                  transactions |-> 0, handles |-> 0]
    /\ history = [steps |-> <<>>, run |-> "none", sent |-> "none",
                  committed |-> "none", written |-> FALSE]
    /\ ret = Pending
    /\ phase = "contract"
    /\ instructions = <<>>
    /\ VMIs(State_new(NoStorage, "main", <<>>))
    /\ check_cs = <<>>
    /\ analyzers = <<>>
    /\ type_index = <<>>
    /\ item_states = <<>>
    /\ define_stack = <<>>
    /\ exit_code = "Passed"
    /\ unit_tests = <<>>
    /\ overflow_checks = FALSE
    /\ scopes = <<>>

\* lines 74-89: the contract of the address, and the account id it has when
\* it is unlocked
GetContract ==
    /\ phase = "contract"
    /\ CASE args.contract = "none" ->
              /\ Responds(CallErr("ContractNotFound"))
              /\ UNCHANGED history
         [] args.contract = "locked" ->
              /\ Responds(CallErr("ContractLocked"))
              /\ history' = [history EXCEPT !.steps = Append(@, 1)]
         [] OTHER -> Proceeds("method", 1)
    /\ UNCHANGED <<database, handler>>
    /\ CallUnchanged

\* lines 91-97: the method of the name, which must be mutable
GetMethod ==
    /\ phase = "method"
    /\ CASE args.method = "none" ->
              /\ Responds(CallErr("MethodNotFound"))
              /\ UNCHANGED history
         [] args.method = "immutable" ->
              /\ Responds(CallErr("MethodIsImmutable"))
              /\ UNCHANGED history
         [] OTHER -> Proceeds("wallet", 2)
    /\ UNCHANGED <<database, handler>>
    /\ CallUnchanged

\* lines 99-107: the wallet of the contract
InitWallet ==
    /\ phase = "wallet"
    /\ \E outcome \in Outcomes :
          IF outcome = "Ok" THEN Proceeds("input", 0)
          ELSE Responds(CallErr("ZkSyncClient")) /\ UNCHANGED history
    /\ UNCHANGED <<database, handler>>
    /\ CallUnchanged

\* lines 109-110: the arguments of the method
ParseInput ==
    /\ phase = "input"
    /\ \E outcome \in Outcomes :
          IF outcome = "Ok" THEN Proceeds("storage", 3)
          ELSE Responds(CallErr("InvalidInput")) /\ UNCHANGED history
    /\ UNCHANGED <<database, handler>>
    /\ CallUnchanged

\* lines 112-122: the fields of the contract are read from the database
LoadStorage ==
    /\ phase = "storage"
    /\ \E outcome \in Outcomes :
          IF outcome = "Ok"
          THEN /\ Proceeds("messages", 4)
               /\ handler' = [handler EXCEPT !.storage = database]
          ELSE /\ Responds(CallErr("Database")) /\ UNCHANGED history
               /\ UNCHANGED handler
    /\ UNCHANGED database
    /\ CallUnchanged

\* lines 129-135: the transactions of the request as messages for the method
ConvertTransactions ==
    /\ phase = "messages"
    /\ \E outcome \in Outcomes :
          IF outcome = "Ok" \/ args.transaction = 0 THEN Proceeds("run", 0)
          ELSE Responds(CallErr("Transaction")) /\ UNCHANGED history
    /\ UNCHANGED <<database, handler>>
    /\ CallUnchanged

\* lines 137-150: the method is run on the virtual machine, which returns the
\* storage after the call and the transfers of the contract, or an error
RunMethod ==
    /\ phase = "run"
    /\ \E outcome \in Outcomes, output \in {StoredBefore, StoredBefore + 1},
          transfers \in 0..MaxBatch :
          IF outcome = "Ok"
          THEN /\ handler' = [handler EXCEPT !.output = output,
                                             !.transfers = transfers]
               /\ phase' = "transactions"
               /\ history' = [history EXCEPT !.steps = @ \o <<5, 6>>, !.run = "Ok"]
               /\ UNCHANGED ret
          ELSE /\ Responds(CallErr("RuntimeError"))
               /\ history' = [history EXCEPT !.steps = Append(@, 5), !.run = "Err"]
               /\ UNCHANGED handler
    /\ UNCHANGED database
    /\ CallUnchanged

\* lines 152-217: the transactions of the request and one signed transfer for
\* each transfer of the contract
BuildTransactions ==
    /\ phase = "transactions"
    /\ \E outcome \in {"Ok", "Err", "TokenNotFound"} :
          CASE outcome = "Ok" ->
                 /\ Proceeds("send", 7)
                 /\ handler' = [handler EXCEPT
                                   !.transactions = args.transaction + handler.transfers]
            [] outcome = "TokenNotFound" /\ handler.transfers > 0 ->
                 /\ Responds(CallErr("TokenNotFound")) /\ UNCHANGED history
                 /\ UNCHANGED handler
            [] OTHER ->
                 /\ Responds(CallErr("ZkSyncClient")) /\ UNCHANGED history
                 /\ UNCHANGED handler
    /\ UNCHANGED database
    /\ CallUnchanged

\* lines 224-248: the batch is sent, and there is a handle for each transaction
SendBatch ==
    /\ phase = "send"
    /\ \E outcome \in Outcomes :
          IF outcome = "Ok"
          THEN /\ handler' = [handler EXCEPT !.handles = handler.transactions]
               /\ phase' = "wait"
               /\ history' = [history EXCEPT !.steps = Append(@, 8), !.sent = "Ok"]
               /\ UNCHANGED ret
          ELSE /\ Responds(CallErr("ZkSyncClient"))
               /\ history' = [history EXCEPT !.steps = Append(@, 8), !.sent = "Err"]
               /\ UNCHANGED handler
    /\ UNCHANGED database
    /\ CallUnchanged

\* what wait_for_commit returns: an error (the timeout of the commit among
\* them), or the receipt with its Option<bool> success
Receipts ==
    {[tag |-> "Err", success |-> "None"]}
    \cup {[tag |-> "Ok", success |-> success] : success \in {"Some(true)",
                                                             "Some(false)", "None"}}

\* a wait that does not look at the success of the receipt
committed_unchecked(handles, tx_info) ==
    IF handles = 0 THEN CallOk
    ELSE IF tx_info.tag = "Err" THEN CallErr("ZkSyncClient")
    ELSE CallOk

\* lines 250-261: the commit of the last handle of the batch is waited for;
\* its error, or a receipt without success, is an error of the handler
committed(handles, tx_info) ==
    IF handles = 0 THEN CallOk
    ELSE IF tx_info.tag = "Err" THEN CallErr("ZkSyncClient")
    ELSE IF tx_info.success # "Some(true)" THEN CallErr("TransferFailure")
    ELSE CallOk

WaitForCommit ==
    /\ phase = "wait"
    /\ \E tx_info \in Receipts :
          LET result == committed(handler.handles, tx_info)
              step == IF handler.handles = 0 THEN <<>> ELSE <<9>>
              receipt == IF handler.handles = 0 THEN "none"
                         ELSE IF tx_info.tag = "Ok" /\ tx_info.success = "Some(true)"
                         THEN "Ok" ELSE "Err"
          IN  /\ history' = [history EXCEPT !.steps = @ \o step, !.committed = receipt]
              /\ IF result.tag = "Ok" THEN phase' = "update" /\ UNCHANGED ret
                 ELSE Responds(result)
    /\ UNCHANGED <<database, handler>>
    /\ CallUnchanged

\* lines 263-264: the storage after the call is written to the database
UpdateFields ==
    /\ phase = "update"
    /\ \E outcome \in Outcomes :
          IF outcome = "Ok"
          THEN /\ database' = handler.output
               /\ phase' = "respond"
               /\ history' = [history EXCEPT !.steps = Append(@, 10),
                                             !.written = TRUE]
               /\ UNCHANGED ret
          ELSE /\ Responds(CallErr("Database"))
               /\ history' = [history EXCEPT !.steps = Append(@, 10)]
               /\ UNCHANGED database
    /\ UNCHANGED handler
    /\ CallUnchanged

\* lines 266-271: the output of the method is the response
Respond ==
    /\ phase = "respond"
    /\ Responds(CallOk)
    /\ history' = [history EXCEPT !.steps = Append(@, 11)]
    /\ UNCHANGED <<database, handler>>
    /\ CallUnchanged

HandleNext ==
    \/ GetContract \/ GetMethod \/ InitWallet \/ ParseInput \/ LoadStorage
    \/ ConvertTransactions \/ RunMethod \/ BuildTransactions \/ SendBatch
    \/ WaitForCommit \/ UpdateFields \/ Respond

SpecHandle == HandleInit /\ [][HandleNext]_vars

Responded == phase = "responded"
\* the errors of the claim: of the method, of the run, of the send, of the commit
Refused ==
    \/ args.contract = "found" /\ args.method \in {"none", "immutable"}
    \/ history.run = "Err"
    \/ history.sent = "Err"
    \/ history.committed = "Err"

====
